---- MODULE Spec2Model ----
(***************************************************************************)
(* Equipment-catalog demonstration scripts: the similarity ranking of      *)
(* test_similarity_search_algorithm (validate_production_readiness.py)    *)
(* and the in-memory filter / sort queries of query_examples.py,           *)
(* test_query_performance and test_bulk_operations; the thread-pool tests  *)
(* of test_concurrent_access.py; and the scripts that act on the TerminusDB *)
(* server: init_db.py, init_model_catalog.py, load_data.py,                *)
(* update_examples.py and run_demo.py, which calls them in turn.           *)
(*                                                                         *)
(* Python floats are IEEE-754 binary64.  A float is modelled exactly: a    *)
(* sign and a magnitude, the magnitude a natural number counting units of  *)
(* 2^-135, held as little-endian digits base 2^15, and every arithmetic    *)
(* operation rounds its exact result to 53 significant bits, ties to even. *)
(***************************************************************************)
EXTENDS Integers, Sequences, FiniteSets, TLC

\* ------------------------------------------------------------------ bounds
MaxHp == 4
MaxTractors == 3
MaxEquipment == 3
MaxValue == 2
MaxOps == 3
MaxWorkers == 2
MaxSample == 2

\* ------------------------------------------------- binary64 arithmetic
\* naturals as little-endian sequences of digits base 2^15, no leading zero
Base == 2^15
FracLimbs == 135 \div 15

Limb(a, i) == IF i <= Len(a) THEN a[i] ELSE 0

RECURSIVE Norm(_)
Norm(a) == IF a = <<>> THEN a
           ELSE IF a[Len(a)] = 0 THEN Norm(SubSeq(a, 1, Len(a) - 1)) ELSE a

RECURSIVE AddC(_, _, _, _)
AddC(a, b, i, c) ==
    IF i > Len(a) /\ i > Len(b)
    THEN IF c = 0 THEN <<>> ELSE <<c>>
    ELSE LET s == Limb(a, i) + Limb(b, i) + c
         IN  <<s % Base>> \o AddC(a, b, i + 1, s \div Base)
AddN(a, b) == AddC(a, b, 1, 0)

\* a - b for a >= b
RECURSIVE SubC(_, _, _, _)
SubC(a, b, i, c) ==
    IF i > Len(a) THEN <<>>
    ELSE LET s == a[i] - Limb(b, i) - c
         IN  IF s < 0 THEN <<s + Base>> \o SubC(a, b, i + 1, 1)
                      ELSE <<s>> \o SubC(a, b, i + 1, 0)
SubN(a, b) == Norm(SubC(a, b, 1, 0))

RECURSIVE CmpFrom(_, _, _)
CmpFrom(a, b, i) ==
    IF i = 0 THEN 0
    ELSE IF a[i] < b[i] THEN -1
    ELSE IF a[i] > b[i] THEN 1
    ELSE CmpFrom(a, b, i - 1)
CmpN(a, b) ==
    IF Len(a) < Len(b) THEN -1
    ELSE IF Len(a) > Len(b) THEN 1
    ELSE CmpFrom(a, b, Len(a))

RECURSIVE MulSmallC(_, _, _, _)
MulSmallC(a, k, i, c) ==
    IF i > Len(a) THEN (IF c = 0 THEN <<>> ELSE <<c>>)
    ELSE LET s == a[i] * k + c
         IN  <<s % Base>> \o MulSmallC(a, k, i + 1, s \div Base)
MulSmallN(a, k) == IF k = 0 THEN <<>> ELSE MulSmallC(a, k, 1, 0)

Zeros(n) == [i \in 1..n |-> 0]
ShiftLimbs(a, n) == IF a = <<>> THEN a ELSE Zeros(n) \o a
NatN(n) == Norm(<<n % Base, n \div Base>>)

RECURSIVE MulFrom(_, _, _)
MulFrom(a, b, j) ==
    IF j > Len(b) THEN <<>>
    ELSE AddN(ShiftLimbs(MulSmallN(a, b[j]), j - 1), MulFrom(a, b, j + 1))
MulN(a, b) == MulFrom(a, b, 1)

\* long division of a by one digit d (0 < d < Base), from the top digit down
RECURSIVE DivSmallC(_, _, _, _)
DivSmallC(a, d, i, r) ==
    IF i = 0 THEN [q |-> <<>>, r |-> r]
    ELSE LET cur  == r * Base + a[i]
             rest == DivSmallC(a, d, i - 1, cur % d)
         IN  [q |-> rest.q \o <<cur \div d>>, r |-> rest.r]
DivSmallN(a, d) ==
    LET res == DivSmallC(a, d, Len(a), 0)
    IN  [q |-> Norm(res.q), r |-> res.r]

RECURSIVE BitsOf(_)
BitsOf(n) == IF n = 0 THEN 0 ELSE 1 + BitsOf(n \div 2)
BitLen(a) == IF a = <<>> THEN 0 ELSE 15 * (Len(a) - 1) + BitsOf(a[Len(a)])

Pow2N(s) == Zeros(s \div 15) \o <<2^(s % 15)>>

\* a natural rounded to 53 significant bits, ties to even
Round53(m) ==
    IF BitLen(m) <= 53 THEN m
    ELSE LET s     == BitLen(m) - 53
             a     == s \div 15
             c     == 2^(s % 15)
             trunc == [i \in 1..Len(m) |->
                          IF i <= a THEN 0
                          ELSE IF i = a + 1 THEN m[i] - (m[i] % c)
                          ELSE m[i]]
             rem   == SubN(m, trunc)
             half  == CmpN(MulSmallN(rem, 2), Pow2N(s))
             odd   == (m[a + 1] \div c) % 2 = 1
         IN  IF half > 0 \/ (half = 0 /\ odd)
             THEN AddN(trunc, Pow2N(s)) ELSE trunc

\* a float: sign and magnitude (in units of 2^-135)
F(neg, mag) == [neg |-> neg /\ mag # <<>>, mag |-> mag]
FZero == F(FALSE, <<>>)
FInt(n) == IF n >= 0 THEN F(FALSE, ShiftLimbs(NatN(n), FracLimbs))
                     ELSE F(TRUE, ShiftLimbs(NatN(-n), FracLimbs))
\* n / d for naturals n and 0 < d < Base: the float nearest the quotient
\* (Python's true division of ints, and a decimal literal such as 0.4 = 4/10)
FRatio(n, d) ==
    LET qr == DivSmallN(ShiftLimbs(NatN(n), FracLimbs), d)
        y  == IF qr.r # 0 /\ qr.q[1] % 2 = 0
              THEN [qr.q EXCEPT ![1] = @ + 1] ELSE qr.q
    IN  F(FALSE, Round53(y))
FAddF(u, v) ==
    IF u.neg = v.neg THEN F(u.neg, Round53(AddN(u.mag, v.mag)))
    ELSE IF CmpN(u.mag, v.mag) >= 0 THEN F(u.neg, Round53(SubN(u.mag, v.mag)))
    ELSE F(v.neg, Round53(SubN(v.mag, u.mag)))
FNeg(u) == F(~u.neg, u.mag)
FSubF(u, v) == FAddF(u, FNeg(v))
FMulF(u, v) ==
    LET p == Round53(MulN(u.mag, v.mag))
    IN  F(u.neg # v.neg, IF p = <<>> THEN p ELSE SubSeq(p, FracLimbs + 1, Len(p)))
FLess(u, v) ==
    IF u.neg # v.neg THEN u.neg
    ELSE IF u.neg THEN CmpN(u.mag, v.mag) > 0 ELSE CmpN(u.mag, v.mag) < 0
FLeq(u, v) == ~FLess(v, u)
FMax(u, v) == IF FLess(u, v) THEN v ELSE u

\* ------------------------------------------------------------ documents
\* A document is a Python dict: a function from the field names it holds to
\* their values.  d.get(k, default) and the comparison a.get(k) == b.get(k),
\* where get of a missing key is None and no stored value is None.
GetD(d, k, default) == IF k \in DOMAIN d THEN d[k] ELSE default
\* (variant: a key absent from both does not compare equal)
SameGetPresent(a, b, k) == k \in DOMAIN a /\ k \in DOMAIN b /\ a[k] = b[k]
SameGet(a, b, k) ==
    /\ (k \in DOMAIN a) = (k \in DOMAIN b)
    /\ k \in DOMAIN a => a[k] = b[k]

Abs(n) == IF n < 0 THEN -n ELSE n

\* the tractor models of the sample catalog, and three further records:
\* one as far from the first as another sample is, one unlike every sample,
\* and one holding no specification field at all
SampleSpecs ==
    { [rated_power_hp |-> 370, transmission_type |-> "Infinitely Variable",
       four_wheel_drive |-> TRUE, category |-> "Row Crop"],
      [rated_power_hp |-> 340, transmission_type |-> "Continuously Variable",
       four_wheel_drive |-> TRUE, category |-> "Row Crop"],
      [rated_power_hp |-> 152, transmission_type |-> "Hydrostatic",
       four_wheel_drive |-> TRUE, category |-> "Utility"] }
OtherSpecs ==
    { [rated_power_hp |-> 400, transmission_type |-> "Continuously Variable",
       four_wheel_drive |-> TRUE, category |-> "Row Crop"],
      [rated_power_hp |-> 0, transmission_type |-> "Manual",
       four_wheel_drive |-> FALSE, category |-> "Compact Utility"],
      <<>> }
CatalogSpecs == SampleSpecs \cup OtherSpecs
CatalogHp == {s.rated_power_hp : s \in {t \in CatalogSpecs : "rated_power_hp" \in DOMAIN t}}

\* every combination of present and absent specification fields
Opt(k, S) == {<<>>} \cup {k :> s : s \in S}
HpSpecs == Opt("rated_power_hp", 0..MaxHp)
CategoricalSpecs ==
    { cat @@ tr @@ fwd :
        cat \in Opt("category", {"Row Crop", "Utility"}),
        tr  \in Opt("transmission_type", {"Infinitely Variable", "Hydrostatic"}),
        fwd \in Opt("four_wheel_drive", BOOLEAN) }
AllSpecs == {hp @@ c : hp \in HpSpecs, c \in CategoricalSpecs}
HpValues == (0..MaxHp) \cup CatalogHp

Doc(id, fields) == ("@id" :> id) @@ fields
SpecOf(d) == [k \in DOMAIN d \ {"@id"} |-> d[k]]
SeqsUpTo(S, n) == UNION {[1..k -> S] : k \in 0..n}
\* documents as the database returns them: identities are unique
Docs(specs) == [k \in DOMAIN specs |-> Doc(k, specs[k])]

\* ------------------------------------------- calculate_similarity_score
W04 == FRatio(4, 10)
W03 == FRatio(3, 10)
W02 == FRatio(2, 10)
W01 == FRatio(1, 10)
Returned(val) == [raised |-> FALSE, val |-> val]
ZeroDivisionError == [raised |-> TRUE, val |-> FZero]

\* if ref_hp > 0:
\* (variant: the guard admits 0)
HpGuardNonNegative(ref_hp) == ref_hp >= 0
HpGuard(ref_hp) == ref_hp > 0
\* abs(ref_hp - cand_hp) / ref_hp, then max(0, 1 - hp_diff_pct)
\* (variants: without max(0, ...); without abs)
HpSimilarityUnclamped(ref_hp, cand_hp) ==
    FSubF(FInt(1), FRatio(Abs(ref_hp - cand_hp), ref_hp))
HpSimilaritySigned(ref_hp, cand_hp) ==
    FMax(FZero,
         IF cand_hp > ref_hp THEN FAddF(FInt(1), FRatio(cand_hp - ref_hp, ref_hp))
                             ELSE FSubF(FInt(1), FRatio(ref_hp - cand_hp, ref_hp)))
HpSimilarity(ref_hp, cand_hp) ==
    FMax(FZero, FSubF(FInt(1), FRatio(Abs(ref_hp - cand_hp), ref_hp)))
\* score = 0.0 and the four weighted steps
WeightedScore(ref_hp, cand_hp, cat_eq, trans_eq, fwd_eq) ==
    IF HpGuard(ref_hp) /\ ref_hp = 0 THEN ZeroDivisionError
    ELSE LET s0 == FZero
             s1 == IF HpGuard(ref_hp)
                   THEN FAddF(s0, FMulF(HpSimilarity(ref_hp, cand_hp), W04))
                   ELSE s0
             s2 == IF cat_eq THEN FAddF(s1, W03) ELSE s1
             s3 == IF trans_eq THEN FAddF(s2, W02) ELSE s2
             s4 == IF fwd_eq THEN FAddF(s3, W01) ELSE s3
         IN  Returned(s4)
\* WeightedScore tabulated once over the horsepower values in use
ScoreMemo ==
    [r \in HpValues, c \in HpValues, ce \in BOOLEAN, te \in BOOLEAN, fe \in BOOLEAN |->
        WeightedScore(r, c, ce, te, fe)]
FourWheelDriveMatch(ref, candidate) == SameGet(ref, candidate, "four_wheel_drive")
LookUpScore(ref, candidate) ==
    ScoreMemo[GetD(ref, "rated_power_hp", 0),
              GetD(candidate, "rated_power_hp", 0),
              SameGet(ref, candidate, "category"),
              SameGet(ref, candidate, "transmission_type"),
              FourWheelDriveMatch(ref, candidate)]
\* (variant: self recognised by its values)
calculate_similarity_score_by_value(ref, candidate) ==
    IF SpecOf(candidate) = SpecOf(ref) THEN Returned(FInt(-1))
    ELSE LookUpScore(ref, candidate)
calculate_similarity_score(ref, candidate) ==
    IF SameGet(candidate, ref, "@id") THEN Returned(FInt(-1))
    ELSE LookUpScore(ref, candidate)

\* ------------------------------------------------------- list operations
\* list.sort(key=..., reverse=...): stable in either direction.  keys[k] is
\* the float key of items[k].
KeyBefore(a, b, reverse) == IF reverse THEN FLess(b, a) ELSE FLess(a, b)
InsertSorted(out, e, reverse) ==
    LET at == CHOOSE p \in 1..(Len(out) + 1) :
                  /\ p = Len(out) + 1 \/ KeyBefore(e.key, out[p].key, reverse)
                  /\ \A q \in 1..(p - 1) : ~KeyBefore(e.key, out[q].key, reverse)
    IN  SubSeq(out, 1, at - 1) \o <<e>> \o SubSeq(out, at, Len(out))
StableSort(items, keys, reverse) ==
    LET sorted[k \in 0..Len(items)] ==
            IF k = 0 THEN <<>>
            ELSE InsertSorted(sorted[k - 1], [key |-> keys[k], item |-> items[k]], reverse)
    IN  [k \in 1..Len(items) |-> sorted[Len(items)][k].item]

Scores(results) == [k \in DOMAIN results |-> results[k].score]
Reverse(s) == [k \in 1..Len(s) |-> s[Len(s) + 1 - k]]
\* (variant: ascending sort, then reversed)
SortByScoreThenReverse(results) == Reverse(StableSort(results, Scores(results), FALSE))
SortByScore(results) == StableSort(results, Scores(results), TRUE)
\* if score >= 0:
\* (variants: score > 0; score >= -1)
ScoreKeptPositive(score) == FLess(FZero, score)
ScoreKeptFromMinusOne(score) == FLeq(FInt(-1), score)
ScoreKept(score) == FLeq(FZero, score)

ValueOf(eq) == GetD(eq, "current_value", 0)
Values(equipment) == [k \in DOMAIN equipment |-> FInt(ValueOf(equipment[k]))]
SortByValue(equipment) == StableSort(equipment, Values(equipment), TRUE)
HighValue(eq, min) == ValueOf(eq) >= min

\* ------------------------------------------------------------ str methods
\* A Python str is a sequence of characters; s[i:j] is SubSeq(s, i + 1, j).
AsciiUpper == "ABCDEFGHIJKLMNOPQRSTUVWXYZ"
AsciiLower == "abcdefghijklmnopqrstuvwxyz"
LowerChar(c) ==
    IF \E i \in 1..Len(AsciiUpper) : SubSeq(AsciiUpper, i, i) = c
    THEN LET i == CHOOSE j \in 1..Len(AsciiUpper) : SubSeq(AsciiUpper, j, j) = c
         IN  SubSeq(AsciiLower, i, i)
    ELSE c
\* s.lower()
RECURSIVE Lower(_)
Lower(s) ==
    IF Len(s) = 0 THEN ""
    ELSE LowerChar(SubSeq(s, 1, 1)) \o Lower(SubSeq(s, 2, Len(s)))
\* sub in s
In(sub, s) ==
    \E i \in 0..(Len(s) - Len(sub)) : SubSeq(s, i + 1, i + Len(sub)) = sub

\* ------------------------------------------------- the query predicates
\* keyword.lower() in str(eq.get(field, '')).lower()
KeywordInField(eq, field, keyword) == In(Lower(keyword), Lower(GetD(eq, field, "")))

\* eq.get('hours_used', 0) < max_hours
\* (variants: <=; a missing value counts as -1)
HoursOfMissingLowest(eq) == GetD(eq, "hours_used", -1)
HoursOf(eq) == GetD(eq, "hours_used", 0)
LowHoursInclusive(eq, max) == HoursOf(eq) <= max
LowHours(eq, max) == HoursOf(eq) < max
Hours(equipment) == [k \in DOMAIN equipment |-> FInt(HoursOf(equipment[k]))]
SortByHours(equipment) == StableSort(equipment, Hours(equipment), FALSE)

\* eq.get('year', 0) >= min_year
YearOf(eq) == GetD(eq, "year", 0)
Recent(eq, min) == YearOf(eq) >= min
Years(equipment) == [k \in DOMAIN equipment |-> FInt(YearOf(equipment[k]))]
\* (variant: ascending sort, then reversed)
SortByYearThenReverse(equipment) == Reverse(StableSort(equipment, Years(equipment), FALSE))
SortByYear(equipment) == StableSort(equipment, Years(equipment), TRUE)

\* d.get('@type') == 'TractorModel'
IsTractorModel(d) == "@type" \in DOMAIN d /\ d["@type"] = "TractorModel"
\* 150 <= t.get('rated_power_hp', 0) <= 400
HpOf(t) == GetD(t, "rated_power_hp", 0)
InHpRange(t) == 150 <= HpOf(t) /\ HpOf(t) <= 400
\* t.get('category') == 'Row Crop'
\* (variant: compared in lower case)
IsRowCropAnyCase(t) == "category" \in DOMAIN t /\ Lower(t["category"]) = Lower("Row Crop")
IsRowCrop(t) == "category" \in DOMAIN t /\ t["category"] = "Row Crop"
\* t.get('rated_power_hp', 0) > 200
HpAbove200(t) == HpOf(t) > 200
\* t.get('four_wheel_drive') == True
IsFourWheelDrive(t) == "four_wheel_drive" \in DOMAIN t /\ t["four_wheel_drive"] = TRUE
\* 'Variable' in str(t.get('transmission_type', ''))
HasVariableTransmission(t) == In("Variable", GetD(t, "transmission_type", ""))
\* the three conditions of the complex filter, joined by `and`
\* (variant: joined by `or`)
ComplexFilterAny(t) == HpAbove200(t) \/ IsFourWheelDrive(t) \/ HasVariableTransmission(t)
ComplexFilter(t) == HpAbove200(t) /\ IsFourWheelDrive(t) /\ HasVariableTransmission(t)

\* ----------------------------------------------------------------- state
VARIABLES
    pc,                  \* where the running function is
    reference,           \* test_similarity_search_algorithm: the reference model
    tractors,            \* the candidate documents, in retrieval order
    cursor,              \* position of `for tractor in tractors`
    similarity_results,  \* list of {'model', 'score'}
    similarity_valid,    \* the function's verdict
    all_equipment,       \* query_high_value_equipment: the documents read
    min_value,           \* its threshold
    filtered,            \* its result list
    max_hours,           \* query_low_hours_equipment: its threshold
    min_year,            \* query_recent_equipment: its threshold
    manufacturer_name,   \* query_by_manufacturer: the name asked for
    condition,           \* query_by_condition: the condition asked for
    location_keyword,    \* query_by_location: the keyword asked for
    all_docs,            \* validate_production_readiness: the documents read
    hp_filtered,         \* test_query_performance: 1a's result
    row_crop,            \* test_query_performance: 1b's result
    server,              \* the TerminusDB server: its databases by name
    client,              \* the script's client: the database it is connected to
    calls,               \* the insert_document / replace_document calls made
    serial_number,       \* example_update_equipment_*: the serial asked for
    new_value,           \* example_update_equipment_*: the value to store
    stack,               \* the callers waiting for the running function
    step,                \* run_demo: the step started last
    exception,           \* run_demo: the exception that ended the step
    exit_status,         \* run_demo: the status given to sys.exit
    futures,             \* test_concurrent_access: the submitted calls
    results,             \* the list the test collects
    test_passed          \* the test's verdict

vars == <<pc, reference, tractors, cursor, similarity_results, similarity_valid,
          all_equipment, min_value, filtered, max_hours, min_year,
          manufacturer_name, condition, location_keyword,
          all_docs, hp_filtered, row_crop,
          server, client, calls, serial_number, new_value,
          stack, step, exception, exit_status, futures, results, test_passed>>
rankVars == <<reference, tractors, cursor, similarity_results, similarity_valid>>
poolVars == <<futures, results, test_passed>>
dbVars == <<server, client, calls, serial_number, new_value>>
demoVars == <<stack, step, exception, exit_status>>
scriptVars == <<dbVars, demoVars, poolVars>>
paramVars == <<max_hours, min_year, manufacturer_name, condition, location_keyword>>
catalogVars == <<all_docs, hp_filtered, row_crop>>
queryVars == <<all_equipment, min_value, filtered, paramVars, catalogVars, scriptVars>>

NoServer == <<>>
NoPool == futures = <<>> /\ results = <<>> /\ test_passed = FALSE
None == "None"
NoCalls == calls = <<>> /\ serial_number = None /\ new_value = None
NoDemo == stack = <<>> /\ step = 0 /\ exception = None /\ exit_status = None
NoScripts == server = NoServer /\ client = None /\ NoCalls /\ NoDemo /\ NoPool
NoRanking ==
    /\ reference = Doc(0, <<>>) /\ tractors = <<>> /\ cursor = 1
    /\ similarity_results = <<>> /\ similarity_valid = FALSE
NoParams ==
    /\ max_hours = 0 /\ min_year = 0
    /\ manufacturer_name = "" /\ condition = "" /\ location_keyword = ""
NoCatalog == all_docs = <<>> /\ hp_filtered = <<>> /\ row_crop = <<>>
NoQuery ==
    /\ all_equipment = <<>> /\ min_value = 0 /\ filtered = <<>>
    /\ NoParams /\ NoCatalog

\* the ranking starts with a reference, which is one of the candidates or a
\* record of its own, and the candidate list
StartRanking(candidates, refs) ==
    /\ pc = "scoring"
    /\ tractors \in candidates
    /\ reference \in {tractors[k] : k \in DOMAIN tractors} \cup refs
    /\ cursor = 1
    /\ similarity_results = <<>>
    /\ similarity_valid = FALSE
    /\ NoQuery
    /\ NoScripts

InitRank ==
    StartRanking({Docs(s) : s \in SeqsUpTo(CatalogSpecs, MaxTractors)},
                 {Doc(0, s) : s \in CatalogSpecs})

EquipmentSpecs == Opt("current_value", 0..MaxValue)
InitQuery ==
    /\ pc = "hv_filter"
    /\ all_equipment \in {Docs(s) : s \in SeqsUpTo(EquipmentSpecs, MaxEquipment)}
    /\ min_value \in 0..MaxValue
    /\ filtered = <<>>
    /\ NoParams /\ NoCatalog
    /\ NoRanking
    /\ NoScripts

Init == InitRank \/ InitQuery

\* the other queries of query_examples.py, each over records holding or
\* lacking the field it reads
Params(hours, year, name, cond, keyword) ==
    /\ max_hours = hours /\ min_year = year
    /\ manufacturer_name = name /\ condition = cond /\ location_keyword = keyword
StartQuery(at, specs) ==
    /\ pc = at
    /\ all_equipment \in {Docs(s) : s \in SeqsUpTo(specs, MaxEquipment)}
    /\ min_value = 0
    /\ filtered = <<>>
    /\ NoCatalog
    /\ NoRanking
    /\ NoScripts

HoursSpecs == Opt("hours_used", 0..MaxValue)
InitLowHours ==
    /\ StartQuery("lh_filter", HoursSpecs)
    /\ \E hours \in 0..MaxValue : Params(hours, 0, "", "", "")

\* years of the sample fleet; thresholds: none, the oldest year, and the
\* one run_all_queries passes
YearSpecs == Opt("year", {2018, 2019, 2022})
MinYears == {0, 2018, 2020}
InitRecent ==
    /\ StartQuery("yr_filter", YearSpecs)
    /\ \E year \in MinYears : Params(0, year, "", "", "")

ManufacturerSpecs == Opt("manufacturer", {"John Deere", "JOHN DEERE", "Kubota"})
ManufacturerNames == {"John Deere", "deere", "Case IH", ""}
InitManufacturer ==
    /\ StartQuery("mf_filter", ManufacturerSpecs)
    /\ \E name \in ManufacturerNames : Params(0, 0, name, "", "")

ConditionSpecs == Opt("condition", {"excellent", "Excellent", "good"})
Conditions == {"excellent", "GOOD", "fair", ""}
InitCondition ==
    /\ StartQuery("cond_filter", ConditionSpecs)
    /\ \E cond \in Conditions : Params(0, 0, "", cond, "")

LocationSpecs ==
    Opt("location", {"North Farm - Barn 1", "South Farm - Equipment Shed",
                     "Construction Yard - Bay 1"})
LocationKeywords == {"North Farm", "farm", "Barn 2", ""}
InitLocation ==
    /\ StartQuery("loc_filter", LocationSpecs)
    /\ \E keyword \in LocationKeywords : Params(0, 0, "", "", keyword)

\* catalog documents for the filters of validate_production_readiness.py:
\* each condition of the filters fails alone on one of them, and each bound
\* is met exactly by one
ModelSpecs ==
    { [type |-> "TractorModel", rated_power_hp |-> 370, category |-> "Row Crop",
       transmission_type |-> "Infinitely Variable", four_wheel_drive |-> TRUE],
      [type |-> "TractorModel", rated_power_hp |-> 340, category |-> "row crop",
       transmission_type |-> "Continuously Variable", four_wheel_drive |-> FALSE],
      [type |-> "TractorModel", rated_power_hp |-> 400, category |-> "Row Crop",
       transmission_type |-> "Hydrostatic", four_wheel_drive |-> TRUE],
      [type |-> "TractorModel", rated_power_hp |-> 200, category |-> "Utility",
       transmission_type |-> "Continuously Variable", four_wheel_drive |-> TRUE],
      [type |-> "TractorModel", rated_power_hp |-> 150, category |-> "Row Crop",
       transmission_type |-> "Infinitely Variable"],
      [type |-> "TractorModel", rated_power_hp |-> 401,
       transmission_type |-> "variable", four_wheel_drive |-> TRUE],
      [type |-> "TractorModel", rated_power_hp |-> 149],
      [type |-> "TractorModel"],
      [type |-> "CombineModel", rated_power_hp |-> 370, category |-> "Row Crop",
       transmission_type |-> "Infinitely Variable", four_wheel_drive |-> TRUE] }
\* the record's `type` is the document's '@type'
Typed(spec) == ("@type" :> spec.type) @@ [k \in DOMAIN spec \ {"type"} |-> spec[k]]
StartCatalog(at) ==
    /\ pc = at
    /\ all_docs \in {Docs(s) : s \in SeqsUpTo({Typed(m) : m \in ModelSpecs}, MaxTractors)}
    /\ hp_filtered = <<>> /\ row_crop = <<>>
    /\ all_equipment = <<>> /\ min_value = 0 /\ filtered = <<>>
    /\ NoParams
    /\ NoRanking
    /\ NoScripts
InitPerformance == StartCatalog("perf_type")
InitBulk == StartCatalog("bulk_query")

InitQueries ==
    \/ InitLowHours \/ InitRecent
    \/ InitManufacturer \/ InitCondition \/ InitLocation
    \/ InitPerformance \/ InitBulk
InitAll == Init \/ InitQueries

\* one reference against one candidate, over every combination of fields;
\* the identities equal or not
InitScore ==
    StartRanking({Docs(<<s>>) : s \in AllSpecs},
                 {Doc(id, s) : id \in 0..1, s \in AllSpecs})

\* one reference against two candidates that agree on category, transmission
\* and drivetrain
InitMono ==
    StartRanking({Docs(<<hp1 @@ c, hp2 @@ c>>) :
                      hp1 \in HpSpecs, hp2 \in HpSpecs, c \in CategoricalSpecs},
                 {Doc(0, s) : s \in AllSpecs})

\* --------------------------------------------------------------- actions
\* one iteration of `for tractor in tractors`
ScoreStep ==
    /\ pc = "scoring"
    /\ cursor <= Len(tractors)
    /\ LET tractor == tractors[cursor]
           res     == calculate_similarity_score(reference, tractor)
       IN  IF res.raised
           THEN /\ pc' = "raised"
                /\ UNCHANGED <<cursor, similarity_results>>
           ELSE /\ similarity_results' =
                      IF ScoreKept(res.val)
                      THEN Append(similarity_results,
                                  [model |-> tractor, score |-> res.val])
                      ELSE similarity_results
                /\ cursor' = cursor + 1
                /\ pc' = pc
    /\ UNCHANGED <<reference, tractors, similarity_valid>>
    /\ UNCHANGED queryVars

\* the loop is over: similarity_results.sort(key=score, reverse=True), the
\* verdict, return
\* (variant: similarity_results[0] is read without `len(similarity_results) > 0`)
SortStepUnguarded ==
    /\ pc = "scoring"
    /\ cursor > Len(tractors)
    /\ similarity_results' = SortByScore(similarity_results)
    /\ IF Len(similarity_results') = 0
       THEN pc' = "raised" /\ UNCHANGED similarity_valid
       ELSE /\ similarity_valid' = FLess(FRatio(1, 2), similarity_results'[1].score)
            /\ pc' = "done"
    /\ UNCHANGED <<reference, tractors, cursor>>
    /\ UNCHANGED queryVars
SortStep ==
    /\ pc = "scoring"
    /\ cursor > Len(tractors)
    /\ similarity_results' = SortByScore(similarity_results)
    /\ similarity_valid' = /\ Len(similarity_results') > 0
                           /\ FLess(FRatio(1, 2), similarity_results'[1].score)
    /\ pc' = "done"
    /\ UNCHANGED <<reference, tractors, cursor>>
    /\ UNCHANGED queryVars

\* filtered = [eq for eq in all_equipment if eq.get('current_value', 0) >= min_value]
FilterHighValue ==
    /\ pc = "hv_filter"
    /\ LET Keep(eq) == HighValue(eq, min_value)
       IN  filtered' = SelectSeq(all_equipment, Keep)
    /\ pc' = "hv_sort"
    /\ UNCHANGED <<all_equipment, min_value, paramVars, catalogVars, scriptVars>>
    /\ UNCHANGED rankVars

\* filtered.sort(key=lambda x: x.get('current_value', 0), reverse=True)
\* (variant: the document list is sorted too)
SortHighValueInPlace ==
    /\ pc = "hv_sort"
    /\ all_equipment' = SortByValue(all_equipment)
    /\ filtered' = SortByValue(filtered)
    /\ pc' = "hv_done"
    /\ UNCHANGED <<min_value, paramVars, catalogVars, scriptVars>>
    /\ UNCHANGED rankVars
SortHighValue ==
    /\ pc = "hv_sort"
    /\ filtered' = SortByValue(filtered)
    /\ pc' = "hv_done"
    /\ UNCHANGED <<all_equipment, min_value, paramVars, catalogVars, scriptVars>>
    /\ UNCHANGED rankVars

\* ---- query_examples.py
keepRanking == <<reference, tractors, cursor, similarity_results, similarity_valid>>
keepQuery == <<all_equipment, min_value, paramVars, catalogVars, scriptVars>>

\* query_by_manufacturer: filtered = [eq for eq in all_equipment if
\* manufacturer_name.lower() in str(eq.get('manufacturer', '')).lower()]
QueryByManufacturer ==
    /\ pc = "mf_filter"
    /\ LET Keep(eq) == KeywordInField(eq, "manufacturer", manufacturer_name)
       IN  filtered' = SelectSeq(all_equipment, Keep)
    /\ pc' = "mf_done"
    /\ UNCHANGED <<keepQuery, keepRanking>>

\* query_by_condition: condition.lower() in str(eq.get('condition', '')).lower()
QueryByCondition ==
    /\ pc = "cond_filter"
    /\ LET Keep(eq) == KeywordInField(eq, "condition", condition)
       IN  filtered' = SelectSeq(all_equipment, Keep)
    /\ pc' = "cond_done"
    /\ UNCHANGED <<keepQuery, keepRanking>>

\* query_by_location:
\* location_keyword.lower() in str(eq.get('location', '')).lower()
\* (variant: the list is built back to front)
QueryByLocationReversed ==
    /\ pc = "loc_filter"
    /\ LET Keep(eq) == KeywordInField(eq, "location", location_keyword)
       IN  filtered' = Reverse(SelectSeq(all_equipment, Keep))
    /\ pc' = "loc_done"
    /\ UNCHANGED <<keepQuery, keepRanking>>
QueryByLocation ==
    /\ pc = "loc_filter"
    /\ LET Keep(eq) == KeywordInField(eq, "location", location_keyword)
       IN  filtered' = SelectSeq(all_equipment, Keep)
    /\ pc' = "loc_done"
    /\ UNCHANGED <<keepQuery, keepRanking>>

\* query_low_hours_equipment:
\* filtered = [eq for eq in all_equipment if eq.get('hours_used', 0) < max_hours]
\* (variant: <=)
FilterLowHoursInclusive ==
    /\ pc = "lh_filter"
    /\ LET Keep(eq) == LowHoursInclusive(eq, max_hours)
       IN  filtered' = SelectSeq(all_equipment, Keep)
    /\ pc' = "lh_sort"
    /\ UNCHANGED <<keepQuery, keepRanking>>
FilterLowHours ==
    /\ pc = "lh_filter"
    /\ LET Keep(eq) == LowHours(eq, max_hours)
       IN  filtered' = SelectSeq(all_equipment, Keep)
    /\ pc' = "lh_sort"
    /\ UNCHANGED <<keepQuery, keepRanking>>
\* filtered.sort(key=lambda x: x.get('hours_used', 0))
SortLowHours ==
    /\ pc = "lh_sort"
    /\ filtered' = SortByHours(filtered)
    /\ pc' = "lh_done"
    /\ UNCHANGED <<keepQuery, keepRanking>>

\* query_recent_equipment:
\* filtered = [eq for eq in all_equipment if eq.get('year', 0) >= min_year]
FilterRecent ==
    /\ pc = "yr_filter"
    /\ LET Keep(eq) == Recent(eq, min_year)
       IN  filtered' = SelectSeq(all_equipment, Keep)
    /\ pc' = "yr_sort"
    /\ UNCHANGED <<keepQuery, keepRanking>>
\* filtered.sort(key=lambda x: x.get('year', 0), reverse=True)
SortRecent ==
    /\ pc = "yr_sort"
    /\ filtered' = SortByYear(filtered)
    /\ pc' = "yr_done"
    /\ UNCHANGED <<keepQuery, keepRanking>>

\* ---- validate_production_readiness.py
keepCatalog == <<all_equipment, min_value, paramVars, all_docs, scriptVars,
                 reference, cursor, similarity_results, similarity_valid>>

\* test_query_performance 1a:
\* tractors = [d for d in all_docs if d.get('@type') == 'TractorModel']
PerfSelectTractors ==
    /\ pc = "perf_type"
    /\ tractors' = SelectSeq(all_docs, IsTractorModel)
    /\ pc' = "perf_hp"
    /\ UNCHANGED <<keepCatalog, hp_filtered, row_crop, filtered>>
\* hp_filtered = [t for t in tractors if 150 <= t.get('rated_power_hp', 0) <= 400]
PerfHpRange ==
    /\ pc = "perf_hp"
    /\ hp_filtered' = SelectSeq(tractors, InHpRange)
    /\ pc' = "perf_category"
    /\ UNCHANGED <<keepCatalog, tractors, row_crop, filtered>>
\* 1b: row_crop = [t for t in tractors if t.get('category') == 'Row Crop']
PerfRowCrop ==
    /\ pc = "perf_category"
    /\ row_crop' = SelectSeq(tractors, IsRowCrop)
    /\ pc' = "perf_done"
    /\ UNCHANGED <<keepCatalog, tractors, hp_filtered, filtered>>

\* test_bulk_operations 8a: the average (query_time*1000)/len(all_docs)
BulkQuery ==
    /\ pc = "bulk_query"
    /\ pc' = IF Len(all_docs) = 0 THEN "bulk_raised" ELSE "bulk_type"
    /\ UNCHANGED <<keepCatalog, tractors, hp_filtered, row_crop, filtered>>
\* 8c: tractors = [d for d in all_docs if d.get('@type') == 'TractorModel']
BulkSelectTractors ==
    /\ pc = "bulk_type"
    /\ tractors' = SelectSeq(all_docs, IsTractorModel)
    /\ pc' = "bulk_filter"
    /\ UNCHANGED <<keepCatalog, hp_filtered, row_crop, filtered>>
\* filtered = [t for t in tractors if ... and ... and ...]
BulkComplexFilter ==
    /\ pc = "bulk_filter"
    /\ filtered' = SelectSeq(tractors, ComplexFilter)
    /\ pc' = "bulk_done"
    /\ UNCHANGED <<keepCatalog, tractors, hp_filtered, row_crop>>

\* ---- test_concurrent_access.py
\* The server holds databases by name; a database has a schema, committed or
\* not, and its instance documents in retrieval order.
Database(committed, docs) == [schema |-> committed, docs |-> docs]
CatalogDb == "equipment_model_catalog"
\* the catalogs read by the tests: no database, an empty one, and one of two
\* tractor models, a combine model and a manufacturer
PoolCatalog ==
    Docs(<< [type |-> "TractorModel", manufacturer |-> "John Deere", rated_power_hp |-> 370],
            [type |-> "TractorModel", manufacturer |-> "Kubota", rated_power_hp |-> 152],
            [type |-> "CombineModel", manufacturer |-> "John Deere"],
            [type |-> "Manufacturer", name |-> "John Deere"] >>)
PoolServers ==
    { NoServer,
      CatalogDb :> Database(TRUE, <<>>),
      CatalogDb :> Database(TRUE, [k \in DOMAIN PoolCatalog |-> Typed(PoolCatalog[k])]) }

\* thread_id i is submitted with read_operations[i], which rotates through
\* three query types
QueryTypes == <<"all", "filter_hp", "manufacturer">>
QueryTypeOf(thread_id) == QueryTypes[(thread_id % 3) + 1]
ThreadIds == 0..(MaxOps - 1)
\* d.get('@type') == 'TractorModel' and d.get('rated_power_hp', 0) > 200
IsTractorAbove200(d) == IsTractorModel(d) /\ HpAbove200(d)
\* d.get('manufacturer') == 'John Deere' and 'Model' in d.get('@type', '')
IsJohnDeereModel(d) ==
    /\ "manufacturer" \in DOMAIN d /\ d["manufacturer"] = "John Deere"
    /\ In("Model", GetD(d, "@type", ""))
\* result_count of simulate_catalog_read
\* (variant: every query type counts all documents)
ResultCountOfAll(query_type, docs) == Len(docs)
ResultCount(query_type, docs) ==
    CASE query_type = "all" -> Len(docs)
      [] query_type = "filter_hp" -> Len(SelectSeq(docs, IsTractorAbove200))
      [] query_type = "manufacturer" -> Len(SelectSeq(docs, IsJohnDeereModel))
      [] OTHER -> 0
\* the dict simulate_catalog_read returns, normally and from `except`
ReadResult(thread_id, docs) ==
    [thread_id |-> thread_id, query_type |-> QueryTypeOf(thread_id),
     result_count |-> ResultCount(QueryTypeOf(thread_id), docs), success |-> TRUE]
ReadFailure(thread_id) ==
    [thread_id |-> thread_id, query_type |-> QueryTypeOf(thread_id),
     result_count |-> 0, success |-> FALSE]
\* the dict count_documents returns, normally and from `except`
CountResult(thread_id, docs) ==
    [thread_id |-> thread_id, total_docs |-> Len(docs),
     tractor_count |-> Len(SelectSeq(docs, IsTractorModel)), success |-> TRUE]
CountFailure(thread_id) == [thread_id |-> thread_id, success |-> FALSE]

\* a submitted call: waiting in the executor's queue, running before or after
\* its get_all_documents, finished, or handed to the test by as_completed
Future(state, docs, result) == [state |-> state, all_docs |-> docs, result |-> result]
Submitted == [i \in ThreadIds |-> Future("pending", <<>>, <<>>)]
InitPool ==
    /\ pc \in {"cr_pool", "rc_pool", "sc_pool"}
    /\ server \in PoolServers
    /\ client = None /\ NoCalls /\ NoDemo
    /\ futures = Submitted
    /\ results = <<>>
    /\ test_passed = FALSE
    /\ NoQuery
    /\ NoRanking
PoolRunning == pc \in {"cr_pool", "rc_pool", "sc_pool"}
\* ThreadPoolExecutor(max_workers=10) for 10 calls, 5 for 5, 5 for 20
max_workers == IF pc = "sc_pool" THEN MaxWorkers ELSE MaxOps
InState(state) == {i \in ThreadIds : futures[i].state = state}
keepPool == <<rankVars, all_equipment, min_value, filtered, paramVars, catalogVars, dbVars, demoVars>>


\* a worker takes the next call from the queue
StartCall(i) ==
    /\ PoolRunning
    /\ futures[i].state = "pending"
    /\ \A j \in ThreadIds : j < i => futures[j].state # "pending"
    /\ Cardinality(InState("running") \cup InState("read")) < max_workers
    /\ futures' = [futures EXCEPT ![i].state = "running"]
    /\ UNCHANGED <<pc, results, test_passed, keepPool>>
\* get_client(), client.connect(db=DB_NAME), list(client.get_all_documents(...)):
\* any of them may raise, and connect does when the database does not exist;
\* `except Exception` returns the failure dict
ReadCatalog(i) ==
    /\ PoolRunning
    /\ futures[i].state = "running"
    /\ \/ futures' = [futures EXCEPT ![i] =
                         Future("done", <<>>,
                                IF pc = "rc_pool" THEN CountFailure(i) ELSE ReadFailure(i))]
       \/ /\ CatalogDb \in DOMAIN server
          /\ futures' = [futures EXCEPT ![i] = Future("read", server[CatalogDb].docs, <<>>)]
    /\ UNCHANGED <<pc, results, test_passed, keepPool>>
\* the filter over the worker's own all_docs, and the dict returned
ReturnResult(i) ==
    /\ PoolRunning
    /\ futures[i].state = "read"
    /\ futures' = [futures EXCEPT ![i] =
                      Future("done", futures[i].all_docs,
                             IF pc = "rc_pool" THEN CountResult(i, futures[i].all_docs)
                             ELSE ReadResult(i, futures[i].all_docs))]
    /\ UNCHANGED <<pc, results, test_passed, keepPool>>
\* for future in as_completed(futures): results.append(future.result())
\* (variant: only the result of a read that succeeded is appended)
AsCompletedIfSucceeded(i) ==
    /\ PoolRunning
    /\ futures[i].state = "done"
    /\ futures' = [futures EXCEPT ![i].state = "yielded"]
    /\ results' = IF futures[i].result.success
                  THEN Append(results, futures[i].result) ELSE results
    /\ UNCHANGED <<pc, test_passed, keepPool>>
AsCompleted(i) ==
    /\ PoolRunning
    /\ futures[i].state = "done"
    /\ futures' = [futures EXCEPT ![i].state = "yielded"]
    /\ results' = Append(results, futures[i].result)
    /\ UNCHANGED <<pc, test_passed, keepPool>>

Succeeded(r) == r.success
Failed(r) == ~r.success
AllYielded == \A i \in ThreadIds : futures[i].state = "yielded"
\* test_concurrent_reads after the pool: successful, failed, the average
\* sum(...)/len(successful), and
\* test_passed = len(failed) == 0 and total_time < 5.0
ConcurrentReadsVerdict ==
    /\ pc = "cr_pool"
    /\ AllYielded
    /\ LET successful == SelectSeq(results, Succeeded)
           failed     == SelectSeq(results, Failed)
       IN  IF Len(successful) = 0
           THEN pc' = "cr_raised" /\ UNCHANGED test_passed
           ELSE /\ \E in_time \in BOOLEAN : test_passed' = (Len(failed) = 0 /\ in_time)
                /\ pc' = "cr_returned"
    /\ UNCHANGED <<futures, results, keepPool>>
\* test_read_consistency after the pool
ReadConsistencyVerdict ==
    /\ pc = "rc_pool"
    /\ AllYielded
    /\ LET successful == SelectSeq(results, Succeeded)
           doc_counts == {successful[k].total_docs : k \in DOMAIN successful}
           tractor_counts == {successful[k].tractor_count : k \in DOMAIN successful}
       IN  test_passed' = IF Len(successful) > 0
                          THEN Cardinality(doc_counts) = 1 /\ Cardinality(tractor_counts) = 1
                          ELSE FALSE
    /\ pc' = "rc_returned"
    /\ UNCHANGED <<futures, results, keepPool>>
\* test_scalability_simulation after the pool:
\* avg_response_time = sum(...) / len(successful) and
\* test_passed = len(successful) == len(results) and avg_response_time < 500
ScalabilityVerdict ==
    /\ pc = "sc_pool"
    /\ AllYielded
    /\ LET successful == SelectSeq(results, Succeeded)
       IN  IF Len(successful) = 0
           THEN pc' = "sc_raised" /\ UNCHANGED test_passed
           ELSE /\ \E in_time \in BOOLEAN :
                       test_passed' = (Len(successful) = Len(results) /\ in_time)
                /\ pc' = "sc_returned"
    /\ UNCHANGED <<futures, results, keepPool>>

NextPool ==
    \/ \E i \in ThreadIds : StartCall(i) \/ ReadCatalog(i) \/ ReturnResult(i) \/ AsCompleted(i)
    \/ ConcurrentReadsVerdict \/ ReadConsistencyVerdict \/ ScalabilityVerdict

\* ------------------------------------ init_db.py and init_model_catalog.py
EquipmentDb == "equipment_db"
keepDb == <<rankVars, all_equipment, min_value, filtered, paramVars, catalogVars, poolVars>>
Remove(dbs, name) == [n \in DOMAIN dbs \ {name} |-> dbs[n]]
\* a document as the server stores it: the identity is made of the type and
\* the key (the name of a manufacturer, the serial number of a machine)
KeyOf(spec) == IF "serial_number" \in DOMAIN spec THEN spec.serial_number ELSE spec.name
Stored(spec) == Doc(spec.type \o "/" \o KeyOf(spec), Typed(spec))
\* the documents found on the server before the script runs
StoredEquipment ==
    << Stored([type |-> "Tractor", serial_number |-> "JD-8R-370-2020-001",
               hours_used |-> 1250, location |-> "North Farm - Barn 1"]),
       Stored([type |-> "Combine", serial_number |-> "JD-S780-2018-001",
               hours_used |-> 2100, location |-> "South Farm - Equipment Shed"]) >>
StoredCatalog == [k \in DOMAIN PoolCatalog |-> Typed(PoolCatalog[k])]
InitialServers ==
    { NoServer,
      EquipmentDb :> Database(TRUE, StoredEquipment),
      EquipmentDb :> Database(FALSE, <<>>),
      CatalogDb :> Database(TRUE, StoredCatalog),
      (EquipmentDb :> Database(TRUE, StoredEquipment)) @@ (CatalogDb :> Database(TRUE, StoredCatalog)) }
InitInitialize ==
    /\ pc \in {"initialize_database", "initialize_model_catalog"}
    /\ server \in InitialServers
    /\ client = None /\ NoCalls /\ NoDemo /\ NoPool
    /\ NoQuery /\ NoRanking
\* the module whose function is running gives DB_NAME
InModelCatalog ==
    pc \in {"initialize_model_catalog", "imc_check", "imc_create", "imc_connect",
            "imc_commit", "imc_returned", "imc_raised"}
DB_NAME == IF InModelCatalog THEN CatalogDb ELSE EquipmentDb
\* client = get_client(): connected to the server, to no database yet
GetClient(at, next, on_error) ==
    /\ pc = at
    /\ \/ client' = "" /\ pc' = next
       \/ pc' = on_error /\ UNCHANGED client
    /\ UNCHANGED <<server, calls, serial_number, new_value, demoVars, keepDb>>
\* try: if client.get_database(DB_NAME): client.delete_database(DB_NAME)
\* except Exception: (printed)
DeleteExisting(at, next) ==
    /\ pc = at
    /\ pc' = next
    /\ \/ /\ DB_NAME \in DOMAIN server
          /\ server' = Remove(server, DB_NAME)
       \/ UNCHANGED server
    /\ UNCHANGED <<client, calls, serial_number, new_value, demoVars, keepDb>>
\* client.create_database(DB_NAME, ...): the server refuses a name it has
\* (variant: an existing database is taken over as it is)
CreateOrKeepDatabase(at, next, on_error) ==
    /\ pc = at
    /\ \/ /\ server' = IF DB_NAME \in DOMAIN server THEN server
                       ELSE server @@ (DB_NAME :> Database(FALSE, <<>>))
          /\ pc' = next
       \/ pc' = on_error /\ UNCHANGED server
    /\ UNCHANGED <<client, calls, serial_number, new_value, demoVars, keepDb>>
CreateDatabase(at, next, on_error) ==
    /\ pc = at
    /\ \/ /\ DB_NAME \notin DOMAIN server
          /\ server' = server @@ (DB_NAME :> Database(FALSE, <<>>))
          /\ pc' = next
       \/ pc' = on_error /\ UNCHANGED server
    /\ UNCHANGED <<client, calls, serial_number, new_value, demoVars, keepDb>>
\* client.connect(db=DB_NAME)
ConnectDatabase(at, next, on_error) ==
    /\ pc = at
    /\ \/ /\ DB_NAME \in DOMAIN server
          /\ client' = DB_NAME
          /\ pc' = next
       \/ pc' = on_error /\ UNCHANGED client
    /\ UNCHANGED <<server, calls, serial_number, new_value, demoVars, keepDb>>
\* commit_model_catalog_schema(client)
CommitSchema(at, next, on_error) ==
    /\ pc = at
    /\ \/ /\ client \in DOMAIN server
          /\ server' = [server EXCEPT ![client].schema = TRUE]
          /\ pc' = next
       \/ pc' = on_error /\ UNCHANGED server
    /\ UNCHANGED <<client, calls, serial_number, new_value, demoVars, keepDb>>

InitDbGetClient == GetClient("initialize_database", "idb_check", "idb_raised")
InitDbDeleteExisting == DeleteExisting("idb_check", "idb_create")
InitDbCreate == CreateDatabase("idb_create", "idb_connect", "idb_raised")
InitDbConnect == ConnectDatabase("idb_connect", "idb_returned", "idb_raised")
initialize_database ==
    InitDbGetClient \/ InitDbDeleteExisting \/ InitDbCreate \/ InitDbConnect

CatalogGetClient == GetClient("initialize_model_catalog", "imc_check", "imc_raised")
CatalogDeleteExisting == DeleteExisting("imc_check", "imc_create")
CatalogCreate == CreateDatabase("imc_create", "imc_connect", "imc_raised")
CatalogConnect == ConnectDatabase("imc_connect", "imc_commit", "imc_raised")
CatalogCommitSchema == CommitSchema("imc_commit", "imc_returned", "imc_raised")
initialize_model_catalog ==
    \/ CatalogGetClient \/ CatalogDeleteExisting \/ CatalogCreate
    \/ CatalogConnect \/ CatalogCommitSchema


\* ------------------------------------------------------------ load_data.py
Take(list, n) == SubSeq(list, 1, IF Len(list) < n THEN Len(list) ELSE n)
manufacturers ==
    Take(<< [type |-> "Manufacturer", name |-> "John Deere"],
            [type |-> "Manufacturer", name |-> "Caterpillar"] >>, MaxSample)
sample_tractors ==
    Take(<< [type |-> "Tractor", serial_number |-> "JD-8R-370-2020-001",
             hours_used |-> 1250, location |-> "North Farm - Barn 1"],
            [type |-> "Tractor", serial_number |-> "KB-M7-152-2019-002",
             hours_used |-> 2100, location |-> "South Farm - Equipment Shed"],
            [type |-> "Tractor", serial_number |-> "CI-MAGNUM-340-2021-003",
             hours_used |-> 450, location |-> "North Farm - Barn 1"] >>, MaxSample)
combines ==
    Take(<< [type |-> "Combine", serial_number |-> "JD-S780-2018-001",
             hours_used |-> 2100, location |-> "South Farm - Equipment Shed"],
            [type |-> "Combine", serial_number |-> "NH-CR8-90-2020-002",
             hours_used |-> 980, location |-> "North Farm - Barn 1"] >>, MaxSample)
construction_equipment ==
    Take(<< [type |-> "ConstructionEquipment", serial_number |-> "CAT-D6T-2017-002",
             hours_used |-> 5200, location |-> "Construction Yard"],
            [type |-> "ConstructionEquipment", serial_number |-> "JD-310-2021-003",
             hours_used |-> 890, location |-> "Construction Yard"],
            [type |-> "ConstructionEquipment", serial_number |-> "CAT-TL943-2020-004",
             hours_used |-> 1500, location |-> "Construction Yard"] >>, MaxSample)
balers ==
    Take(<< [type |-> "SmallSquareBaler", serial_number |-> "NH-BC5060-2020-001",
             hours_used |-> 320, location |-> "North Farm - Barn 1"],
            [type |-> "RoundBaler", serial_number |-> "JD-569-2022-001",
             hours_used |-> 150, location |-> "South Farm - Equipment Shed"] >>, MaxSample)
\* the five loops of load_sample_data, one after the other
SampleData == manufacturers \o sample_tractors \o combines \o construction_equipment \o balers
InsertCall(doc, ok) == [op |-> "insert_document", doc |-> doc, ok |-> ok]
StoredIds(name) == {server[name].docs[k]["@id"] : k \in DOMAIN server[name].docs}
\* client.insert_document(x, ...): the server stores the document or refuses
\* it; it refuses an identity it holds already
InsertDocument(spec, ok) ==
    /\ ok => /\ client \in DOMAIN server
             /\ Stored(spec)["@id"] \notin StoredIds(client)
    /\ server' = IF ok THEN [server EXCEPT ![client].docs = Append(@, Stored(spec))]
                 ELSE server
    /\ calls' = Append(calls, InsertCall(Stored(spec), ok))
InitLoad ==
    /\ pc = "load_sample_data"
    /\ server \in InitialServers
    /\ client = None /\ NoCalls /\ NoDemo /\ NoPool
    /\ NoQuery /\ NoRanking
LoadGetClient == GetClient("load_sample_data", "load_connect", "load_raised")
LoadConnect == ConnectDatabase("load_connect", "load_insert", "load_raised")
\* for x in <group>: try: client.insert_document(x, ...) except Exception: print
\* (variant: the first failure ends the load)
LoadInsertUntilFailure ==
    /\ pc = "load_insert"
    /\ Len(calls) < Len(SampleData)
    /\ \E ok \in BOOLEAN :
           /\ InsertDocument(SampleData[Len(calls) + 1], ok)
           /\ pc' = IF ok THEN "load_insert" ELSE "load_returned"
    /\ UNCHANGED <<client, serial_number, new_value, demoVars, keepDb>>
LoadInsert ==
    /\ pc = "load_insert"
    /\ Len(calls) < Len(SampleData)
    /\ \E ok \in BOOLEAN : InsertDocument(SampleData[Len(calls) + 1], ok)
    /\ UNCHANGED <<pc, client, serial_number, new_value, demoVars, keepDb>>
\* return client
LoadReturn ==
    /\ pc = "load_insert"
    /\ Len(calls) = Len(SampleData)
    /\ pc' = "load_returned"
    /\ UNCHANGED <<dbVars, demoVars, keepDb>>
load_sample_data == LoadGetClient \/ LoadConnect \/ LoadInsert \/ LoadReturn


\* ------------------------------------------------------ update_examples.py
IsTractor(d) == d["@type"] = "Tractor"
IsCombine(d) == d["@type"] = "Combine"
IsConstructionEquipment(d) == d["@type"] = "ConstructionEquipment"
\* all_equipment: the Tractor, then the Combine, then the ConstructionEquipment
\* documents, each in the order the database returns them
\* (variant: document_template is ignored, every document is returned)
EquipmentOfAnyType(docs) == docs \o docs \o docs
EquipmentOf(docs) ==
    SelectSeq(docs, IsTractor) \o SelectSeq(docs, IsCombine)
        \o SelectSeq(docs, IsConstructionEquipment)
\* eq.get('serial_number') == serial_number
MatchesIn(list, serial) ==
    {k \in DOMAIN list : "serial_number" \in DOMAIN list[k] /\ list[k]["serial_number"] = serial}
\* for eq in all_equipment: if ...: equipment = eq; break  -- 0 stands for None
\* (variant: the loop has no break, the last match is kept)
LastMatch(list, serial) ==
    IF MatchesIn(list, serial) = {} THEN 0
    ELSE CHOOSE k \in MatchesIn(list, serial) : \A j \in MatchesIn(list, serial) : j <= k
FirstMatch(list, serial) ==
    IF MatchesIn(list, serial) = {} THEN 0
    ELSE CHOOSE k \in MatchesIn(list, serial) : \A j \in MatchesIn(list, serial) : k <= j
\* equipment[field] = new_...
SetField(d, field, val) == [k \in DOMAIN d \cup {field} |-> IF k = field THEN val ELSE d[k]]
ReplaceCall(doc, ok) == [op |-> "replace_document", doc |-> doc, ok |-> ok]
\* client.replace_document(equipment, ...): the stored document of the same
\* identity is replaced
Replaced(docs, doc) == [k \in DOMAIN docs |-> IF docs[k]["@id"] = doc["@id"] THEN doc ELSE docs[k]]
ReplaceDocument(doc, ok) ==
    /\ ok => client \in DOMAIN server
    /\ server' = IF ok THEN [server EXCEPT ![client].docs = Replaced(@, doc)] ELSE server
    /\ calls' = Append(calls, ReplaceCall(doc, ok))
Updates == <<"update_hours", "update_condition", "update_location", "update_value">>
UpdatedFields == <<"hours_used", "condition", "location", "current_value">>
\* the arguments run_all_examples passes
UpdateSerials == <<"JD-8R-370-2020-001", "CAT-D6T-2017-002", "KB-M7-152-2019-002", "JD-310-2021-003">>
NewValues == <<1350, "EquipmentCondition/good", "North Farm - Barn 2", 85000>>
\* databases for the update examples: the same serial number on a
\* construction machine stored before a tractor, on two tractors and on a
\* baler; a serial number only a baler has
Machine(id, type, serial, hours) ==
    Doc(id, Typed([type |-> type, serial_number |-> serial, hours_used |-> hours,
                   location |-> "North Farm - Barn 1"]))
UpdateDocs ==
    { << Machine("ConstructionEquipment/1", "ConstructionEquipment", "JD-8R-370-2020-001", 10),
         Machine("RoundBaler/1", "RoundBaler", "JD-8R-370-2020-001", 20),
         Machine("Tractor/1", "Tractor", "KB-M7-152-2019-002", 30),
         Machine("Tractor/2", "Tractor", "JD-8R-370-2020-001", 40),
         Machine("Tractor/3", "Tractor", "JD-8R-370-2020-001", 50) >>,
      << Machine("RoundBaler/1", "RoundBaler", "JD-310-2021-003", 20),
         Machine("ConstructionEquipment/1", "ConstructionEquipment", "CAT-D6T-2017-002", 10),
         Machine("Combine/1", "Combine", "CAT-D6T-2017-002", 60),
         Stored([type |-> "Manufacturer", name |-> "John Deere"]) >>,
      <<>> }
InitUpdate ==
    /\ \E u \in DOMAIN Updates :
           /\ pc = Updates[u]
           /\ new_value = NewValues[u]
    /\ serial_number \in {UpdateSerials[u] : u \in DOMAIN UpdateSerials}
    /\ server \in {EquipmentDb :> Database(TRUE, docs) : docs \in UpdateDocs}
    /\ client = EquipmentDb
    /\ calls = <<>>
    /\ NoDemo /\ NoPool
    /\ all_equipment = <<>> /\ min_value = 0 /\ filtered = <<>>
    /\ NoParams /\ NoCatalog /\ NoRanking
keepUpdate == <<rankVars, min_value, filtered, paramVars, catalogVars, poolVars,
                client, serial_number, new_value, demoVars>>
\* the three get_all_documents calls, the search and `if not equipment: return`
UpdateFind(u) ==
    /\ pc = Updates[u]
    /\ \/ /\ client \in DOMAIN server
          /\ all_equipment' = EquipmentOf(server[client].docs)
          /\ pc' = IF FirstMatch(all_equipment', serial_number) = 0
                   THEN Updates[u] \o "_returned"
                   ELSE Updates[u] \o "_replace"
       \/ /\ pc' = Updates[u] \o "_raised"
          /\ UNCHANGED all_equipment
    /\ UNCHANGED <<server, calls, keepUpdate>>
\* equipment[field] = new value; client.replace_document(equipment, ...);
\* example_update_equipment_hours then reads the documents again
UpdateReplace(u) ==
    /\ pc = Updates[u] \o "_replace"
    /\ LET equipment == SetField(all_equipment[FirstMatch(all_equipment, serial_number)],
                                 UpdatedFields[u], new_value)
       IN  \E ok \in BOOLEAN :
               /\ ReplaceDocument(equipment, ok)
               /\ \/ pc' = IF ok THEN Updates[u] \o "_returned" ELSE Updates[u] \o "_raised"
                  \/ ok /\ u = 1 /\ pc' = Updates[u] \o "_raised"
    /\ UNCHANGED <<all_equipment, keepUpdate>>
example_update_equipment == \E u \in DOMAIN Updates : UpdateFind(u) \/ UpdateReplace(u)


\* the documents the four add examples insert
AddExamples ==
    << [type |-> "Manufacturer", name |-> "Massey Ferguson"],
       [type |-> "Tractor", serial_number |-> "MF-7720-2022-005",
        hours_used |-> 125, location |-> "East Farm - New Barn"],
       [type |-> "Combine", serial_number |-> "CI-8250-2021-003",
        hours_used |-> 650, location |-> "East Farm - New Barn"],
       [type |-> "ConstructionEquipment", serial_number |-> "CAT-430F-2022-005",
        hours_used |-> 180, location |-> "Construction Yard"] >>
Calling(function) == stack # <<>> /\ Head(stack) = function
InitExamples ==
    /\ pc = "run_all_examples"
    /\ server \in { NoServer, EquipmentDb :> Database(TRUE, StoredEquipment),
                    EquipmentDb :> Database(TRUE, [k \in DOMAIN SampleData |-> Stored(SampleData[k])]) }
    /\ client = None /\ NoCalls /\ NoDemo /\ NoPool
    /\ NoQuery /\ NoRanking
ExamplesGetClient == GetClient("run_all_examples", "examples_connect", "examples_raised")
ExamplesConnect == ConnectDatabase("examples_connect", "examples_add", "examples_raised")
\* example_add_manufacturer .. example_add_construction_equipment: an insert
\* that fails raises out of run_all_examples
ExamplesAdd ==
    /\ pc = "examples_add"
    /\ Len(calls) < Len(AddExamples)
    /\ \E ok \in BOOLEAN :
           /\ InsertDocument(AddExamples[Len(calls) + 1], ok)
           /\ pc' = IF ok THEN "examples_add" ELSE "examples_raised"
    /\ UNCHANGED <<client, serial_number, new_value, demoVars, keepDb>>
\* example_update_equipment_hours(client, "JD-8R-370-2020-001", 1350) and the
\* three calls after it, each made when the one before returned
ExamplesCallUpdate(u) ==
    /\ IF u = 1
       THEN /\ pc = "examples_add"
            /\ Len(calls) = Len(AddExamples)
            /\ stack' = <<"run_all_examples">> \o stack
       ELSE /\ Calling("run_all_examples")
            /\ pc = Updates[u - 1] \o "_returned"
            /\ UNCHANGED stack
    /\ pc' = Updates[u]
    /\ serial_number' = UpdateSerials[u]
    /\ new_value' = NewValues[u]
    /\ UNCHANGED <<server, client, calls, step, exception, exit_status, keepDb>>
\* an update example raised: run_all_examples has no handler
ExamplesUpdateRaised ==
    /\ Calling("run_all_examples")
    /\ \E u \in DOMAIN Updates : pc = Updates[u] \o "_raised"
    /\ pc' = "examples_raised"
    /\ stack' = Tail(stack)
    /\ UNCHANGED <<dbVars, step, exception, exit_status, keepDb>>
\* example_delete_equipment only prints; run_all_examples returns
ExamplesReturn ==
    /\ Calling("run_all_examples")
    /\ pc = Updates[Len(Updates)] \o "_returned"
    /\ pc' = "examples_returned"
    /\ stack' = Tail(stack)
    /\ UNCHANGED <<dbVars, step, exception, exit_status, keepDb>>
run_all_examples ==
    \/ ExamplesGetClient \/ ExamplesConnect \/ ExamplesAdd
    \/ \E u \in DOMAIN Updates : ExamplesCallUpdate(u)
    \/ ExamplesUpdateRaised \/ ExamplesReturn

\* ------------------------------------------ query_examples.run_all_queries
InitRunQueries ==
    /\ pc = "run_all_queries"
    /\ server \in InitialServers
    /\ client = None /\ NoCalls /\ NoDemo /\ NoPool
    /\ NoQuery /\ NoRanking
QueriesGetClient == GetClient("run_all_queries", "queries_connect", "queries_raised")
QueriesConnect == ConnectDatabase("queries_connect", "queries_run", "queries_raised")
\* the nine query functions read and print: they return or one of them raises
QueriesRun ==
    /\ pc = "queries_run"
    /\ pc' \in {"queries_returned", "queries_raised"}
    /\ UNCHANGED <<dbVars, demoVars, keepDb>>
run_all_queries == QueriesGetClient \/ QueriesConnect \/ QueriesRun

\* ------------------------------------------------------------- run_demo.py
Steps == <<"initialize_database", "load_sample_data", "run_all_queries", "run_all_examples">>
StepReturned == <<"idb_returned", "load_returned", "queries_returned", "examples_returned">>
StepRaised == <<"idb_raised", "load_raised", "queries_raised", "examples_raised">>
StepAt == <<"demo_step1", "demo_step2", "demo_step3", "demo_step4", "demo_complete">>
InitDemo ==
    /\ pc = "run_demo"
    /\ server \in {NoServer, EquipmentDb :> Database(TRUE, StoredEquipment)}
    /\ client = None /\ NoCalls /\ NoDemo /\ NoPool
    /\ NoQuery /\ NoRanking
\* sys.exit(status)
Exit(status, error) ==
    /\ pc' = "exited"
    /\ exit_status' = status
    /\ exception' = error
\* check_terminusdb_connection(): True for status 200, None for another
\* status, False when the request raises; if not ...: sys.exit(1)
DemoCheckConnection ==
    /\ pc = "run_demo"
    /\ \E connected \in {"True", "None", "False"} :
           IF connected = "True"
           THEN pc' = StepAt[1] /\ UNCHANGED <<exception, exit_status>>
           ELSE Exit(1, None)
    /\ UNCHANGED <<dbVars, stack, step, keepDb>>
\* from <module> import <function>; try: <function>()
DemoCallStep(k) ==
    /\ pc = StepAt[k]
    /\ \/ /\ pc' = Steps[k]
          /\ step' = k
          /\ stack' = <<"run_demo">>
          /\ client' = None
          /\ calls' = <<>>
          /\ UNCHANGED <<exception, exit_status>>
       \/ /\ Exit(1, "ImportError")
          /\ UNCHANGED <<stack, step, client, calls>>
    /\ UNCHANGED <<server, serial_number, new_value, keepDb>>
\* the step returned: print, time.sleep(1), on to the next
DemoStepReturned(k) ==
    /\ Calling("run_demo")
    /\ pc = StepReturned[k]
    /\ pc' = StepAt[k + 1]
    /\ stack' = <<>>
    /\ UNCHANGED <<dbVars, step, exception, exit_status, keepDb>>
\* except Exception as e: print; sys.exit(1)
\* (variant: the handler only prints and the demo goes on)
DemoStepRaisedGoesOn(k) ==
    /\ Calling("run_demo")
    /\ pc = StepRaised[k]
    /\ pc' = StepAt[k + 1]
    /\ stack' = <<>>
    /\ UNCHANGED <<dbVars, step, exception, exit_status, keepDb>>
DemoStepRaised(k) ==
    /\ Calling("run_demo")
    /\ pc = StepRaised[k]
    /\ Exit(1, "Exception")
    /\ UNCHANGED <<dbVars, stack, step, keepDb>>
\* the banner DEMO COMPLETE!; run_demo returns and the process ends
DemoComplete ==
    /\ pc = StepAt[Len(Steps) + 1]
    /\ pc' = "demo_returned"
    /\ UNCHANGED <<dbVars, demoVars, keepDb>>
\* except KeyboardInterrupt: sys.exit(0) -- Ctrl-C at any point of the demo
InDemo ==
    \/ pc = "run_demo" \/ \E k \in DOMAIN StepAt : pc = StepAt[k]
    \/ stack # <<>> /\ stack[Len(stack)] = "run_demo" /\ pc # "exited"
DemoInterrupted ==
    /\ InDemo
    /\ Exit(0, "KeyboardInterrupt")
    /\ UNCHANGED <<dbVars, stack, step, all_equipment, min_value, filtered,
                   rankVars, paramVars, catalogVars, poolVars>>
run_demo ==
    \/ DemoCheckConnection
    \/ \E k \in DOMAIN Steps : DemoCallStep(k) \/ DemoStepReturned(k) \/ DemoStepRaised(k)
    \/ DemoComplete \/ DemoInterrupted


NextRank == ScoreStep \/ SortStep
NextQuery == FilterHighValue \/ SortHighValue
Next == NextRank \/ NextQuery
NextQueries ==
    \/ QueryByManufacturer \/ QueryByCondition \/ QueryByLocation
    \/ FilterLowHours \/ SortLowHours
    \/ FilterRecent \/ SortRecent
NextCatalog ==
    \/ PerfSelectTractors \/ PerfHpRange \/ PerfRowCrop
    \/ BulkQuery \/ BulkSelectTractors \/ BulkComplexFilter
NextAll == Next \/ NextQueries \/ NextCatalog

Spec == Init /\ [][Next]_vars
SpecScore == InitScore /\ [][NextRank]_vars
SpecMono == InitMono /\ [][NextRank]_vars
SpecAll == InitAll /\ [][NextAll]_vars
SpecPool == InitPool /\ [][NextPool]_vars
InitDb == InitInitialize \/ InitLoad \/ InitUpdate \/ InitExamples \/ InitRunQueries \/ InitDemo
NextDb ==
    \/ initialize_database \/ initialize_model_catalog \/ load_sample_data
    \/ example_update_equipment \/ run_all_examples \/ run_all_queries
    \/ run_demo
SpecDb == InitDb /\ [][NextDb]_vars

\* ---------------------------------------------------------------- claims
Ids(docs) == {docs[k]["@id"] : k \in DOMAIN docs}
Kept(id) == {k \in DOMAIN similarity_results : similarity_results[k].model["@id"] = id}
Others == {j \in DOMAIN tractors : tractors[j]["@id"] # reference["@id"]}
PositionOf(id) == CHOOSE j \in DOMAIN tractors : tractors[j]["@id"] = id

\* C1: the ranking never holds a record with the reference's identity, and
\* only identity excludes: a candidate of another identity whose specification
\* values equal the reference's, or another candidate's, is in the result.
C1_ExcludedByIdentityOnly ==
    /\ \A k \in DOMAIN similarity_results :
           similarity_results[k].model["@id"] # reference["@id"]
    /\ pc = "done" =>
           \A j \in Others :
               (\/ SpecOf(tractors[j]) = SpecOf(reference)
                \/ \E h \in DOMAIN tractors :
                       h # j /\ SpecOf(tractors[h]) = SpecOf(tractors[j]))
               => \E k \in DOMAIN similarity_results :
                      similarity_results[k].model = tractors[j]
\* the reference is in the list and was left out, its twin of another
\* identity was kept
C1_Witness ==
    /\ pc = "done"
    /\ SpecOf(reference) \in SampleSpecs
    /\ \E j \in DOMAIN tractors : tractors[j] = reference
    /\ \E j \in Others :
           /\ SpecOf(tractors[j]) = SpecOf(reference)
           /\ Kept(tractors[j]["@id"]) # {}

\* C2: when no candidate has the reference's identity the ranking has
\* exactly len(C) entries, every candidate once, those scoring 0 included.
C2_EveryCandidateOnce ==
    (pc = "done" /\ reference["@id"] \notin Ids(tractors)) =>
        /\ Len(similarity_results) = Len(tractors)
        /\ \A j \in DOMAIN tractors : Cardinality(Kept(tractors[j]["@id"])) = 1
C2_Witness ==
    /\ pc = "done"
    /\ reference["@id"] \notin Ids(tractors)
    /\ Len(tractors) >= 2
    /\ Len(similarity_results) = Len(tractors)
    /\ \E k \in DOMAIN similarity_results : similarity_results[k].score = FZero
    /\ \E k \in DOMAIN similarity_results : FLess(FZero, similarity_results[k].score)

\* C7: the result is ordered by score descending, and candidates with equal
\* scores keep the relative order they have in the candidate list.
C7_SortedDescendingStable ==
    pc = "done" =>
        /\ \A k \in 1..(Len(similarity_results) - 1) :
               FLeq(similarity_results[k + 1].score, similarity_results[k].score)
        /\ \A j, k \in DOMAIN similarity_results :
               (j < k /\ similarity_results[j].score = similarity_results[k].score)
               => PositionOf(similarity_results[j].model["@id"])
                      < PositionOf(similarity_results[k].model["@id"])
\* a tie between two candidates, below a candidate that came later in the list
C7_Witness ==
    /\ pc = "done"
    /\ Len(similarity_results) >= 3
    /\ similarity_results[2].score = similarity_results[3].score
    /\ FLess(FZero, similarity_results[3].score)
    /\ SpecOf(similarity_results[2].model) # SpecOf(similarity_results[3].model)
    /\ FLess(similarity_results[2].score, similarity_results[1].score)
    /\ PositionOf(similarity_results[1].model["@id"])
           > PositionOf(similarity_results[3].model["@id"])

\* C10: ranking, filtering and sorting leave their inputs as they were: no
\* step changes the reference, the candidate list, the document list or its
\* order, and the records in the outputs are records of the input.
Elements(docs) == {docs[k] : k \in DOMAIN docs}
C10_InputsUnchanged ==
    [][/\ reference' = reference
       /\ tractors' = tractors
       /\ all_equipment' = all_equipment
       /\ min_value' = min_value
       /\ {similarity_results'[k].model : k \in DOMAIN similarity_results'}
              \subseteq Elements(tractors)
       /\ Elements(filtered') \subseteq Elements(all_equipment)]_vars
\* the sort reordered the output of a query
C10_Witness ==
    /\ pc = "hv_done"
    /\ Len(filtered) >= 2
    /\ \E j, k \in DOMAIN filtered :
           j < k /\ filtered[j]["@id"] > filtered[k]["@id"]

\* ----------------------------------------- claims about the score itself
\* the score in exact arithmetic, as a fraction: the reference's and the
\* candidate's horsepower (absent: 0), and the matching fields in tenths
RefHp == GetD(reference, "rated_power_hp", 0)
CandHp(e) == GetD(e.model, "rated_power_hp", 0)
Tenths(cat_eq, trans_eq, fwd_eq) ==
    (IF cat_eq THEN 3 ELSE 0) + (IF trans_eq THEN 2 ELSE 0) + (IF fwd_eq THEN 1 ELSE 0)
MatchTenths(e) ==
    Tenths(SameGet(reference, e.model, "category"),
           SameGet(reference, e.model, "transmission_type"),
           SameGet(reference, e.model, "four_wheel_drive"))
Den == IF RefHp > 0 THEN RefHp ELSE 1
\* h * Den, for h = max(0, 1 - |ref_hp - cand_hp| / ref_hp), h = 0 without ref_hp
HpNum(e) ==
    IF RefHp > 0 /\ RefHp - Abs(RefHp - CandHp(e)) > 0
    THEN RefHp - Abs(RefHp - CandHp(e)) ELSE 0
\* |mag / 2^135 - num / den| <= 2^-50: equal up to the rounding of the steps
Near(mag, num, den) ==
    LET lhs == MulSmallN(mag, den)
        rhs == ShiftLimbs(NatN(num), FracLimbs)
        gap == IF CmpN(lhs, rhs) >= 0 THEN SubN(lhs, rhs) ELSE SubN(rhs, lhs)
    IN  CmpN(gap, MulSmallN(Pow2N(135 - 50), den)) <= 0

\* C3: every stored score lies in [0.0, 1.0]; the self-skip value -1 is
\* never stored.
C3_ScoreInUnitInterval ==
    \A k \in DOMAIN similarity_results :
        /\ FLeq(FZero, similarity_results[k].score)
        /\ FLeq(similarity_results[k].score, FInt(1))
        /\ similarity_results[k].score # FInt(-1)
\* a candidate was scored strictly inside the interval
C3_Witness ==
    /\ pc = "done"
    /\ Len(similarity_results) = 1
    /\ FLess(FZero, similarity_results[1].score)
    /\ FLess(similarity_results[1].score, FInt(1))
    /\ RefHp > 0 /\ CandHp(similarity_results[1]) > RefHp

\* C4: the score is 0.4*h + 0.3*[category equal] + 0.2*[transmission_type
\* equal] + 0.1*[four_wheel_drive equal], h = 0 when the reference horsepower
\* is 0 or absent and max(0, 1 - |ref_hp - cand_hp| / ref_hp) otherwise
\* (equal up to the rounding of the float steps); the horsepower term is not
\* negative, so the score never falls below the categorical terms.
C4_WeightedSum ==
    \A k \in DOMAIN similarity_results :
        LET e == similarity_results[k]
        IN  /\ ~e.score.neg
            /\ Near(e.score.mag, 4 * HpNum(e) + MatchTenths(e) * Den, 10 * Den)
            /\ \/ Near(e.score.mag, MatchTenths(e), 10)
               \/ CmpN(MulSmallN(e.score.mag, 10),
                       ShiftLimbs(NatN(MatchTenths(e)), FracLimbs)) > 0
\* a horsepower gap larger than the reference itself, beside matching fields
C4_Witness ==
    /\ pc = "done"
    /\ Len(similarity_results) = 1
    /\ RefHp > 0
    /\ CandHp(similarity_results[1]) > 2 * RefHp
    /\ MatchTenths(similarity_results[1]) = 6
    /\ Near(similarity_results[1].score.mag, 6, 10)

\* C5: scoring r against a copy of r with the same specification values and
\* another identity yields 1.0; stated for the references the horsepower
\* term applies to (rated_power_hp > 0), where all four sub-scores are
\* perfect matches.
C5_SelfSimilarityIsOne ==
    \A k \in DOMAIN similarity_results :
        (RefHp > 0 /\ SpecOf(similarity_results[k].model) = SpecOf(reference))
        => similarity_results[k].score = FInt(1)

\* C8: the drivetrain term is awarded exactly when the four_wheel_drive
\* values are equal after an absent value is replaced by false.
C8_MissingDrivetrainIsFalse ==
    \A k \in DOMAIN similarity_results :
        LET e == similarity_results[k]
        IN  e.score =
                ScoreMemo[RefHp, CandHp(e),
                          SameGet(reference, e.model, "category"),
                          SameGet(reference, e.model, "transmission_type"),
                          GetD(reference, "four_wheel_drive", FALSE)
                              = GetD(e.model, "four_wheel_drive", FALSE)].val

\* C9: with rated_power_hp absent from the reference, the candidate or both
\* (or 0 in the reference) scoring raises nothing, divides by no zero and
\* returns the score the records have with the absent value written as 0.
HpMissing(d) == "rated_power_hp" \notin DOMAIN d
HpZeroed(d) == IF HpMissing(d) THEN d @@ ("rated_power_hp" :> 0) ELSE d
C9_TotalOnMissingHorsepower ==
    /\ pc # "raised"
    /\ (/\ pc = "done"
        /\ Others # {}
        /\ HpMissing(reference) \/ HpMissing(tractors[1]) \/ RefHp = 0)
       => /\ Len(similarity_results) = 1
          /\ similarity_results[1].score =
                 calculate_similarity_score(HpZeroed(reference),
                                            HpZeroed(tractors[1])).val
          /\ RefHp = 0 => Near(similarity_results[1].score.mag,
                               MatchTenths(similarity_results[1]), 10)
\* horsepower absent from both records, and a score came back
C9_Witness ==
    /\ pc = "done"
    /\ HpMissing(reference) /\ HpMissing(tractors[1])
    /\ Len(similarity_results) = 1
    /\ FLess(FZero, similarity_results[1].score)

\* C6: of two candidates that agree on category, transmission_type and
\* four_wheel_drive, the one with the larger |ref_hp - cand_hp| never has
\* the higher score.
Agree(a, b) ==
    /\ SameGet(a, b, "category")
    /\ SameGet(a, b, "transmission_type")
    /\ SameGet(a, b, "four_wheel_drive")
C6_MonotoneInHorsepowerGap ==
    \A j, k \in DOMAIN similarity_results :
        LET a == similarity_results[j]
            b == similarity_results[k]
        IN  (Agree(a.model, b.model) /\ Abs(RefHp - CandHp(a)) > Abs(RefHp - CandHp(b)))
            => FLeq(a.score, b.score)
\* the candidate with the larger gap came first and was ranked strictly lower
C6_Witness ==
    /\ pc = "done"
    /\ Len(similarity_results) = 2
    /\ Agree(similarity_results[1].model, similarity_results[2].model)
    /\ Abs(RefHp - CandHp(similarity_results[2])) > Abs(RefHp - CandHp(similarity_results[1]))
    /\ FLess(similarity_results[2].score, similarity_results[1].score)
    /\ similarity_results[2].model["@id"] = 1

\* ------------------------------------------------- claims on the queries
\* the state right after a filter ran, the list it read, the list it built
\* and the condition it applied
AfterFilter ==
    pc \in {"hv_sort", "lh_sort", "yr_sort", "mf_done", "cond_done", "loc_done",
            "perf_hp", "perf_category", "perf_done", "bulk_filter", "bulk_done"}
FilterInput ==
    CASE pc \in {"perf_hp", "bulk_filter"} -> all_docs
      [] pc \in {"perf_category", "perf_done", "bulk_done"} -> tractors
      [] OTHER -> all_equipment
FilterOutput ==
    CASE pc \in {"perf_hp", "bulk_filter"} -> tractors
      [] pc = "perf_category" -> hp_filtered
      [] pc = "perf_done" -> row_crop
      [] OTHER -> filtered
Selected(d) ==
    CASE pc = "hv_sort" -> HighValue(d, min_value)
      [] pc = "lh_sort" -> LowHours(d, max_hours)
      [] pc = "yr_sort" -> Recent(d, min_year)
      [] pc = "mf_done" -> KeywordInField(d, "manufacturer", manufacturer_name)
      [] pc = "cond_done" -> KeywordInField(d, "condition", condition)
      [] pc = "loc_done" -> KeywordInField(d, "location", location_keyword)
      [] pc \in {"perf_hp", "bulk_filter"} -> IsTractorModel(d)
      [] pc = "perf_category" -> InHpRange(d)
      [] pc = "perf_done" -> IsRowCrop(d)
      [] pc = "bulk_done" -> ComplexFilter(d)
      [] OTHER -> FALSE
InputPosition(d) == CHOOSE k \in DOMAIN FilterInput : FilterInput[k]["@id"] = d["@id"]

\* C11: an empty candidate list is ranked to an empty result and an empty
\* record list is filtered (and then sorted) to an empty list; neither ends
\* in an exception.
C11_EmptyInputEmptyOutput ==
    /\ (pc \in {"done", "raised"} /\ tractors = <<>>) =>
           pc = "done" /\ similarity_results = <<>> /\ ~similarity_valid
    /\ (AfterFilter /\ FilterInput = <<>>) => FilterOutput = <<>>
    /\ (pc \in {"hv_done", "lh_done", "yr_done"} /\ all_equipment = <<>>) =>
           filtered = <<>>
\* the ranking of no candidates ran to its end
C11_Witness ==
    /\ pc = "done"
    /\ tractors = <<>>
    /\ similarity_results = <<>>

\* C12: a filter's result holds exactly the records of its input that meet
\* the condition, each once, in the order they have in the input.
C12_FilterIsSubsequence ==
    AfterFilter =>
        /\ \A j \in DOMAIN FilterOutput :
               /\ FilterOutput[j] \in Elements(FilterInput)
               /\ Selected(FilterOutput[j])
        /\ \A k \in DOMAIN FilterInput :
               Selected(FilterInput[k]) =>
                   Cardinality({j \in DOMAIN FilterOutput :
                                    FilterOutput[j] = FilterInput[k]}) = 1
        /\ \A i, j \in DOMAIN FilterOutput :
               i < j => InputPosition(FilterOutput[i]) < InputPosition(FilterOutput[j])
\* the first and the third of three records were kept, the second was not
C12_Witness ==
    /\ pc = "loc_done"
    /\ Len(all_equipment) = 3
    /\ location_keyword = "farm"
    /\ filtered = <<all_equipment[1], all_equipment[3]>>
    /\ all_equipment[1] # all_equipment[3]

\* C13: filtering a filter's result again by the same condition gives the
\* same list.
C13_FilterIdempotent ==
    AfterFilter => SelectSeq(FilterOutput, Selected) = FilterOutput
\* a threshold filter kept some records and dropped another
C13_Witness ==
    /\ pc = "lh_sort"
    /\ Len(filtered) = 2
    /\ Len(all_equipment) = 3
    /\ \E k \in DOMAIN all_equipment : HoursOf(all_equipment[k]) = max_hours

Has(d, field) == field \in DOMAIN d
InOutput(d) == d \in Elements(FilterOutput)

InclusiveBounds ==
    /\ pc = "perf_category" =>
           \A k \in DOMAIN tractors :
               Has(tractors[k], "rated_power_hp") =>
                   (InOutput(tractors[k]) <=>
                        /\ 150 <= tractors[k]["rated_power_hp"]
                        /\ tractors[k]["rated_power_hp"] <= 400)
    /\ pc = "hv_sort" =>
           \A k \in DOMAIN all_equipment :
               Has(all_equipment[k], "current_value") =>
                   (InOutput(all_equipment[k]) <=>
                        min_value <= all_equipment[k]["current_value"])
    /\ pc = "yr_sort" =>
           \A k \in DOMAIN all_equipment :
               Has(all_equipment[k], "year") =>
                   (InOutput(all_equipment[k]) <=> min_year <= all_equipment[k]["year"])
C16_MissingFieldNeverSelected ==
    /\ pc = "lh_sort" => \A j \in DOMAIN filtered : Has(filtered[j], "hours_used")
    /\ pc = "hv_sort" => \A j \in DOMAIN filtered : Has(filtered[j], "current_value")
    /\ pc = "yr_sort" => \A j \in DOMAIN filtered : Has(filtered[j], "year")
    /\ pc = "perf_category" =>
           \A j \in DOMAIN hp_filtered : Has(hp_filtered[j], "rated_power_hp")

\* C17 as stated: the location and condition filters select a record exactly
\* when it holds the field and the value contains the keyword ignoring case.
C17_SubstringNeedsField ==
    /\ pc = "loc_done" =>
           \A k \in DOMAIN all_equipment :
               InOutput(all_equipment[k]) <=>
                   /\ Has(all_equipment[k], "location")
                   /\ In(Lower(location_keyword), Lower(all_equipment[k]["location"]))
    /\ pc = "cond_done" =>
           \A k \in DOMAIN all_equipment :
               InOutput(all_equipment[k]) <=>
                   /\ Has(all_equipment[k], "condition")
                   /\ In(Lower(condition), Lower(all_equipment[k]["condition"]))

\* the sorts: the key each one orders by, its direction, and where a record
\* stood before the sort
Sorting == pc \in {"hv_sort", "lh_sort", "yr_sort"}
Sorted == pc \in {"hv_done", "lh_done", "yr_done"}
Ascending == pc \in {"lh_sort", "lh_done"}
KeyField ==
    CASE pc \in {"hv_sort", "hv_done"} -> "current_value"
      [] pc \in {"lh_sort", "lh_done"} -> "hours_used"
      [] OTHER -> "year"
SortKey(d) == GetD(d, KeyField, 0)
InOrder(a, b) == IF Ascending THEN SortKey(a) <= SortKey(b) ELSE SortKey(a) >= SortKey(b)
PositionBefore(d) == CHOOSE k \in DOMAIN filtered : filtered[k]["@id"] = d["@id"]

\* C18: a sort leaves a permutation of the list, non-decreasing in the key
\* when ascending and non-increasing when descending, in which records with
\* equal keys stand in the order they had before the sort.
C18_SortedStablePermutation ==
    [][Sorting =>
         /\ Len(filtered') = Len(filtered)
         /\ Elements(filtered') = Elements(filtered)
         /\ \A k \in 1..(Len(filtered') - 1) : InOrder(filtered'[k], filtered'[k + 1])
         /\ \A i, j \in DOMAIN filtered' :
                (i < j /\ SortKey(filtered'[i]) = SortKey(filtered'[j]))
                => PositionBefore(filtered'[i]) < PositionBefore(filtered'[j])]_vars
\* years 2018, 2022, 2019 sorted descending are 2022, 2019, 2018
C18_Witness ==
    /\ pc = "yr_done"
    /\ [k \in DOMAIN all_equipment |-> YearOf(all_equipment[k])] = <<2018, 2022, 2019>>
    /\ [k \in DOMAIN filtered |-> YearOf(filtered[k])] = <<2022, 2019, 2018>>

BulkConditions == 1..4
Meets(n, d) ==
    CASE n = 1 -> IsTractorModel(d)
      [] n = 2 -> HpAbove200(d)
      [] n = 3 -> IsFourWheelDrive(d)
      [] OTHER -> HasVariableTransmission(d)
FilterBy(docs, n) == LET Keep(d) == Meets(n, d) IN SelectSeq(docs, Keep)
FilterByBoth(docs, m, n) == LET Keep(d) == Meets(m, d) /\ Meets(n, d) IN SelectSeq(docs, Keep)
FilterByAll(docs) == LET Keep(d) == \A n \in BulkConditions : Meets(n, d) IN SelectSeq(docs, Keep)
Orders == {o \in [BulkConditions -> BulkConditions] : \A n \in BulkConditions : \E k \in BulkConditions : o[k] = n}
OneByOne(docs, o) == FilterBy(FilterBy(FilterBy(FilterBy(docs, o[1]), o[2]), o[3]), o[4])

\* C20: the list test_bulk_operations builds by filtering on the type and
\* then on the three other conditions at once is the list a single pass over
\* the four conditions gives and the list any one-by-one order of the four
\* gives; and for any two of them, one after the other in either order
\* equals one pass over both.
C20_ConjunctionIsSequential ==
    pc = "bulk_done" =>
        /\ filtered = FilterByAll(all_docs)
        /\ \A o \in Orders : OneByOne(all_docs, o) = filtered
        /\ \A m, n \in BulkConditions :
               /\ FilterBy(FilterBy(all_docs, m), n) = FilterByBoth(all_docs, m, n)
               /\ FilterBy(FilterBy(all_docs, n), m) = FilterByBoth(all_docs, m, n)
\* the type dropped one document, the other conditions dropped another, one
\* was kept
C20_Witness ==
    /\ pc = "bulk_done"
    /\ Len(all_docs) = 3
    /\ Len(tractors) = 2
    /\ Len(filtered) = 1
    /\ filtered[1] = all_docs[3]

\* ------------------------------------- claims on the thread-pool tests
\* what a read run alone against the stored catalog counts
StoredDocs == server[CatalogDb].docs
StoredWhere(field, value) ==
    {k \in DOMAIN StoredDocs : Has(StoredDocs[k], field) /\ StoredDocs[k][field] = value}
CountAlone(query_type) ==
    CASE query_type = "all" -> Len(StoredDocs)
      [] query_type = "filter_hp" ->
             Cardinality({k \in StoredWhere("@type", "TractorModel") :
                              Has(StoredDocs[k], "rated_power_hp")
                              /\ StoredDocs[k]["rated_power_hp"] > 200})
      [] OTHER ->
             Cardinality({k \in StoredWhere("manufacturer", "John Deere") :
                              StoredDocs[k]["@type"] \in {"TractorModel", "CombineModel"}})
HasResult(i) == futures[i].state \in {"done", "yielded"}
InCountTest == pc \in {"rc_pool", "rc_returned"}
AfterPool == pc \in {"cr_returned", "cr_raised", "sc_returned", "sc_raised"}

\* C21: whatever the interleaving of the workers, every read that succeeds
\* returns the count the same read gives when run alone against the stored
\* documents, every count_documents worker that succeeds reports the stored
\* totals, and test_read_consistency passes when any worker succeeded.
C21_ConcurrentReadsAsSequential ==
    /\ \A i \in ThreadIds :
           (HasResult(i) /\ futures[i].result.success) =>
               IF InCountTest
               THEN /\ futures[i].result.total_docs = Len(StoredDocs)
                    /\ futures[i].result.tractor_count
                           = Cardinality(StoredWhere("@type", "TractorModel"))
               ELSE futures[i].result.result_count = CountAlone(QueryTypeOf(i))
    /\ pc = "rc_returned" =>
           (test_passed <=> \E k \in DOMAIN results : results[k].success)
\* three reads of a stored catalog that finished in another order than they
\* were submitted, each of another query type, with different counts
C21_Witness ==
    /\ pc = "cr_returned"
    /\ Len(results) = 3
    /\ results[1].thread_id = 2 /\ results[2].thread_id = 0
    /\ \A k \in DOMAIN results : results[k].success
    /\ results[1].result_count < results[2].result_count
    /\ results[3].result_count < results[1].result_count

ThreadIdsIn(rs) == {rs[k].thread_id : k \in DOMAIN rs}
\* C25: test_concurrent_reads and test_scalability_simulation collect one
\* result per submitted call, each with its own thread_id, whatever the
\* order of completion and whichever reads fail; a failed read is recorded
\* with success False and result_count 0.
C25_OneResultPerOperation ==
    /\ (pc \in {"cr_pool", "sc_pool"} \/ AfterPool) =>
           /\ Len(results) = Cardinality(InState("yielded"))
           /\ ThreadIdsIn(results) = InState("yielded")
           /\ \A k \in DOMAIN results :
                  ~results[k].success => results[k].result_count = 0
    /\ AfterPool =>
           /\ Len(results) = MaxOps
           /\ ThreadIdsIn(results) = ThreadIds
\* the last call submitted finished first and failed, an earlier one succeeded
C25_Witness ==
    /\ pc = "sc_returned"
    /\ Len(results) = MaxOps
    /\ results[1].thread_id = MaxOps - 1
    /\ ~results[1].success
    /\ \E k \in DOMAIN results : results[k].success /\ results[k].result_count > 0

\* C26 as stated: neither test ends in an exception, whichever reads fail.
C26_VerdictNeverRaises ==
    pc \notin {"cr_raised", "sc_raised"}

\* ------------------------------------------ claims on the database scripts
InitializeReturned == pc \in {"idb_returned", "imc_returned"}

\* C23: when initialize_database or initialize_model_catalog returns, the
\* database named DB_NAME exists, the client is connected to it and it holds
\* no document, whatever the server held before.
C23_CleanSetup ==
    InitializeReturned =>
        /\ DB_NAME \in DOMAIN server
        /\ client = DB_NAME
        /\ server[DB_NAME].docs = <<>>
\* initialize_database returned on the server that held both databases with
\* their documents: the equipment database existed before and is now empty
C23_Witness ==
    /\ pc = "idb_returned"
    /\ CatalogDb \in DOMAIN server
    /\ server[CatalogDb].docs = StoredCatalog
    /\ server[EquipmentDb].docs = <<>>

\* C24 as stated: when initialize_database returns, the equipment schema is
\* committed to the database it created.
C24_SchemaCommittedOnReturn ==
    pc = "idb_returned" => server[EquipmentDb].schema

Loading == pc \in {"load_insert", "load_returned"}
StoredNow(doc) == \E k \in DOMAIN server[client].docs : server[client].docs[k] = doc
\* C29: in load_sample_data the inserts are attempted once each in list order
\* through the five groups whichever of them fail, the documents inserted
\* stay stored, the function returns only after the last attempt, and it
\* raises only before the first.
C29_FailedInsertNeverStopsLoad ==
    /\ Loading =>
           /\ Len(calls) <= Len(SampleData)
           /\ \A k \in DOMAIN calls :
                  /\ calls[k].op = "insert_document"
                  /\ calls[k].doc = Stored(SampleData[k])
                  /\ calls[k].ok => StoredNow(calls[k].doc)
    /\ pc = "load_returned" => Len(calls) = Len(SampleData)
    /\ pc = "load_raised" => calls = <<>>
\* the load returned although the first insert and a later one failed, with
\* inserts that succeeded after each failure
C29_Witness ==
    /\ pc = "load_returned"
    /\ ~calls[1].ok /\ calls[2].ok
    /\ ~calls[Len(manufacturers) + 1].ok
    /\ calls[Len(SampleData)].ok
    /\ Len(server[client].docs) = Len(SampleData) - 2

\* the stored documents the update examples search, by position in the store
Searching == \E u \in DOMAIN Updates : pc = Updates[u]
Replacing == \E u \in DOMAIN Updates : pc = Updates[u] \o "_replace"
UpdateEnded == \E u \in DOMAIN Updates : pc \in {Updates[u] \o "_returned", Updates[u] \o "_raised"}
FieldUpdated == UpdatedFields[CHOOSE u \in DOMAIN Updates : pc = Updates[u] \o "_replace"]
StoredDocuments == server[client].docs
TypeRank(d) ==
    CASE d["@type"] = "Tractor" -> 1
      [] d["@type"] = "Combine" -> 2
      [] d["@type"] = "ConstructionEquipment" -> 3
      [] OTHER -> 0
Candidates ==
    {k \in DOMAIN StoredDocuments :
        /\ TypeRank(StoredDocuments[k]) > 0
        /\ StoredDocuments[k]["serial_number"] = serial_number}
RetrievedBefore(j, k) ==
    \/ TypeRank(StoredDocuments[j]) < TypeRank(StoredDocuments[k])
    \/ TypeRank(StoredDocuments[j]) = TypeRank(StoredDocuments[k]) /\ j < k
Target == CHOOSE t \in Candidates : \A k \in Candidates \ {t} : RetrievedBefore(t, k)

\* C27: when no Tractor, Combine or ConstructionEquipment document has the
\* serial number, a step of an example_update_equipment_* function makes no
\* replace_document call, changes no stored document and ends the function.
C27_NotFoundChangesNothing ==
    [][(example_update_equipment /\ client \in DOMAIN server /\ Candidates = {}) =>
           /\ calls' = calls
           /\ server' = server
           /\ UpdateEnded']_vars
\* the hours example returned without a call: only a baler has the serial
C27_Witness ==
    /\ pc = "update_hours_returned"
    /\ calls = <<>>
    /\ \E k \in DOMAIN StoredDocuments :
           /\ StoredDocuments[k]["@type"] = "RoundBaler"
           /\ StoredDocuments[k]["serial_number"] = serial_number

\* C28: when a document with the serial number exists, the function makes
\* one replace_document call, for the first match in Tractor, Combine,
\* ConstructionEquipment retrieval order with only the updated field set to
\* the new value; no other stored document changes, and the function ends.
C28_OneFieldOfFirstMatchReplaced ==
    [][example_update_equipment =>
       /\ (Searching /\ client \in DOMAIN server /\ Candidates # {}) =>
              /\ calls' = calls /\ server' = server
              /\ Replacing' \/ \E u \in DOMAIN Updates : pc' = Updates[u] \o "_raised"
       /\ Replacing =>
              /\ UpdateEnded'
              /\ Len(calls') = Len(calls) + 1
              /\ LET call == calls'[Len(calls')]
                     old == StoredDocuments[Target]
                 IN  /\ call.op = "replace_document"
                     /\ DOMAIN call.doc = DOMAIN old \cup {FieldUpdated}
                     /\ call.doc[FieldUpdated] = new_value
                     /\ \A f \in DOMAIN old \ {FieldUpdated} : call.doc[f] = old[f]
                     /\ server' = IF call.ok
                                  THEN [server EXCEPT ![client].docs[Target] = call.doc]
                                  ELSE server
      ]_vars
\* the location example replaced the second stored tractor; the third, with
\* the same serial number, and the construction machine stored first keep
\* their location
C28_Witness ==
    /\ pc = "update_location_returned"
    /\ Len(calls) = 1 /\ calls[1].ok
    /\ calls[1].doc["@id"] = "Tractor/2"
    /\ Len(StoredDocuments) = 5
    /\ StoredDocuments[4] = calls[1].doc
    /\ StoredDocuments[4]["location"] = "North Farm - Barn 2"
    /\ StoredDocuments[5]["serial_number"] = serial_number
    /\ StoredDocuments[5]["location"] = "North Farm - Barn 1"
    /\ StoredDocuments[1]["serial_number"] = serial_number
    /\ StoredDocuments[1]["location"] = "North Farm - Barn 1"

\* ------------------------------------------------------ claims on run_demo
StepRunning == stack # <<>> /\ stack[Len(stack)] = "run_demo"
\* C22 as stated: whenever the process exits out of a running step, because
\* something was raised in it, the exit status is 1.
C22_RaisingStepExitsWithOne ==
    (pc = "exited" /\ StepRunning) => exit_status = 1

\* C22, amended: the steps start in the order 1, 2, 3, 4, the first only after
\* the connection check returned True and each other only after the step
\* before returned normally; a check that is not True, a failed import or an
\* Exception out of a step exits with status 1, a KeyboardInterrupt with
\* status 0, and nothing runs after the exit.
C22_StepsInOrderExitOnError ==
    [][/\ pc # "exited"
       /\ step' # step =>
              /\ step' = step + 1
              /\ pc = StepAt[step'] /\ pc' = Steps[step']
       /\ \A k \in DOMAIN Steps :
              /\ pc' = Steps[k] /\ StepRunning' /\ pc # pc' => pc = StepAt[k]
              /\ pc' = StepAt[k] /\ pc # pc' =>
                     IF k = 1 THEN pc = "run_demo"
                     ELSE pc = StepReturned[k - 1] /\ step = k - 1
              /\ (pc = StepRaised[k] /\ StepRunning) => pc' = "exited"
       /\ pc = "run_demo" => pc' \in {StepAt[1], "exited"}
       /\ pc' = "exited" =>
              /\ exit_status' = IF exception' = "KeyboardInterrupt" THEN 0 ELSE 1
              /\ step' = step
              /\ exception' # "KeyboardInterrupt" =>
                     \/ pc = "run_demo"
                     \/ \E k \in DOMAIN Steps : pc \in {StepAt[k], StepRaised[k]}
      ]_vars
\* the third step raised after the first two had returned: exit status 1
C22_Witness ==
    /\ pc = "exited"
    /\ step = 3
    /\ exception = "Exception"
    /\ exit_status = 1
    /\ client = EquipmentDb
    /\ Len(server[EquipmentDb].docs) > 0

\* ------------------------------------- claims on the categorical terms
CategoricalValues ==
    [category |-> "Row Crop", transmission_type |-> "Infinitely Variable",
     four_wheel_drive |-> TRUE]
WithField(d, field) == d @@ (field :> CategoricalValues[field])
Bare(d) == DOMAIN d \cap DOMAIN CategoricalValues = {}
\* the score of two records that agree on every field
FullMatchScore ==
    calculate_similarity_score(Doc(0, ("rated_power_hp" :> 1) @@ CategoricalValues),
                               Doc(1, ("rated_power_hp" :> 1) @@ CategoricalValues)).val

\* C30: a categorical field absent from both records earns its term as an
\* equal value on both does, so two records of equal positive horsepower
\* holding none of the three fields get the score of a full match, and no
\* pair scores higher.
C30_AbsentFromBothIsAwarded ==
    \A k \in DOMAIN similarity_results :
        LET e == similarity_results[k]
        IN  /\ \A field \in DOMAIN CategoricalValues :
                   (field \notin DOMAIN reference /\ field \notin DOMAIN e.model) =>
                       e.score = calculate_similarity_score(
                                     WithField(reference, field), WithField(e.model, field)).val
            /\ FLeq(e.score, FullMatchScore)
            /\ (Bare(reference) /\ Bare(e.model) /\ RefHp > 0 /\ CandHp(e) = RefHp) =>
                   e.score = FullMatchScore
\* two records of the same positive horsepower and nothing else were scored
C30_Witness ==
    /\ pc = "done"
    /\ Len(similarity_results) = 1
    /\ Bare(reference) /\ Bare(similarity_results[1].model)
    /\ RefHp > 0 /\ CandHp(similarity_results[1]) = RefHp
    /\ reference["@id"] # similarity_results[1].model["@id"]
    /\ similarity_results[1].score = FullMatchScore

====
